---- MODULE Spec2Model ----
(***************************************************************************)
(* The notebook coordinator (NotebookDO) and the websocket sessions that   *)
(* talk to it.                                                             *)
(*                                                                         *)
(* A CRDT document is the set of the updates it has integrated; `updates`  *)
(* is the table of every update ever created (number -> author, changes).  *)
(* Two documents are CRDT-equal when they hold the same set of updates,    *)
(* and the visible notebook (title, cells) is a function of that set.      *)
(* Update numbers grow in creation order, which extends causal order, so   *)
(* "the later write wins" is decided the same way at every replica.        *)
(***************************************************************************)
EXTENDS Integers, Sequences, FiniteSets, TLC

VARIABLES
  updates,        \* table of all CRDT updates ever created
  nUuid,          \* number of random ids drawn so far (randomId / generateId)
  pc,             \* coordinator: "hydrate" | "sanitize" | "ready"
  doc,            \* coordinator: this.doc
  initializing,   \* coordinator: this.initializing
  persistPending, \* coordinator: this.persistPending
  alarmSet,       \* storage: an alarm is scheduled and has not run
  alarmMoved,     \* storage: setAlarm was called while an alarm was set
  writing,        \* storage: the put in flight, [has, bytes]
  stored,         \* storage: value under STORAGE_KEY, [has, bytes]
  written,        \* the document whose snapshot the last completed put holds
  activations,    \* number of times the coordinator was constructed
  awareness,      \* coordinator: awareness registry, id -> [clock, live]
  socks,          \* coordinator: state.getWebSockets()
  attach,         \* coordinator: per-socket controlledAwarenessIds
  cdoc,           \* client: its Y.Doc
  cconn,          \* client: "new" | "accepted" | "open" | "closed"
  c2s,            \* frames in flight, client -> coordinator
  s2c,            \* frames in flight, coordinator -> client
  input,          \* the arguments of the function a specification applies
  output          \* the result of that function, or NoOutput before the call

vars == <<updates, nUuid, pc, doc, initializing, persistPending, alarmSet,
          alarmMoved, writing, stored, written, activations, awareness, socks,
          attach, cdoc, cconn, c2s, s2c, input, output>>

\* The variables that the coordinator and its sessions leave alone.
aux == <<input, output>>

(***************************************************************************)
(* Bounds.                                                                 *)
(***************************************************************************)
MaxEdits == 2
MaxActivations == 2

Clients == {"A", "B"}
\* The coordinator's own Y.Doc clientID (also its awareness id).
ServerId == "S"
AwIds == Clients \cup {ServerId}

(***************************************************************************)
(* Values held in a cell's keys.  t is the JavaScript kind of the value:   *)
(* "str" a string, "num" a number (v its decimal rendering), "nil" null or *)
(* undefined, "text" a Y.Text with value v.  Keep marks a key that a       *)
(* change does not write.                                                  *)
(***************************************************************************)
Str(s) == [t |-> "str", v |-> s]
Num(s) == [t |-> "num", v |-> s]
Nil == [t |-> "nil", v |-> ""]
YText(s) == [t |-> "text", v |-> s]
Keep == [t |-> "keep", v |-> ""]

DEFAULT_NOTEBOOK_TITLE == "Untitled Notebook"
DEFAULT_NOTEBOOK_MD ==
  "# New Notebook\n\nWelcome! Share this URL to collaborate."
DEFAULT_NOTEBOOK_CODE == "# Write Python code here\n# Shift+Enter to run"

\* randomId(): the k-th id drawn; crypto.randomUUID never repeats.
randomId(k) == "uuid-" \o ToString(k)

(***************************************************************************)
(* Changes of an update.                                                   *)
(*   "cell"  insert a Y.Map with keys id, type, content; `cell` names it   *)
(*   "set"   cell.set(key, value) for the keys that are not Keep           *)
(*   "title" delete the title segments of the updates in `del`, then       *)
(*           insert `content` (del = {} is a plain insert)                 *)
(***************************************************************************)
InsCell(n, k, id, type, content) ==
  [op |-> "cell", cell |-> <<n, k>>, id |-> id, type |-> type,
   content |-> content, del |-> {}]
SetCell(c, id, type, content) ==
  [op |-> "set", cell |-> c, id |-> id, type |-> type, content |-> content,
   del |-> {}]
TitleCh(text, del) ==
  [op |-> "title", cell |-> <<0, 0>>, id |-> Keep, type |-> Keep,
   content |-> Str(text), del |-> del]

\* "del": delete the Y.Map `cell` from the cells array.
DelCell(c) ==
  [op |-> "del", cell |-> c, id |-> Keep, type |-> Keep, content |-> Keep,
   del |-> {}]

Update(by, ch) == [by |-> by, ch |-> ch]

(***************************************************************************)
(* The visible notebook of a document d (a set of update numbers), read    *)
(* from the table tbl.                                                     *)
(***************************************************************************)
RECURSIVE OpsUpTo(_, _, _, _)
\* <<u, k>> of every change with operation op in d, in update order.
OpsUpTo(tbl, d, op, n) ==
  IF n = 0 THEN <<>>
  ELSE LET rest == OpsUpTo(tbl, d, op, n - 1)
           here == IF n \in d
                   THEN SelectSeq([k \in 1..Len(tbl[n].ch) |-> <<n, k>>],
                                  LAMBDA p : tbl[p[1]].ch[p[2]].op = op)
                   ELSE <<>>
       IN rest \o here

Ops(tbl, d, op) == OpsUpTo(tbl, d, op, Len(tbl))

ChangeAt(tbl, p) == tbl[p[1]].ch[p[2]]

RECURSIVE LastWrite(_, _, _, _, _)
\* Y.Map.get(key): the value of the last set of `key` on cell c, else init.
LastWrite(tbl, sets, c, key, init) ==
  IF sets = <<>> THEN init
  ELSE LET ch == ChangeAt(tbl, sets[Len(sets)])
       IN IF ch.cell = c /\ ch[key] # Keep THEN ch[key]
          ELSE LastWrite(tbl, SubSeq(sets, 1, Len(sets) - 1), c, key, init)

\* cells.toArray(): one record per Y.Map, in document order.
DocCells(tbl, d) ==
  LET dels == Ops(tbl, d, "del")
      gone == {ChangeAt(tbl, dels[i]).cell : i \in 1..Len(dels)}
      ins == SelectSeq(Ops(tbl, d, "cell"),
                       LAMBDA p : ChangeAt(tbl, p).cell \notin gone)
      sets == Ops(tbl, d, "set")
  IN [i \in 1..Len(ins) |->
        LET ch == ChangeAt(tbl, ins[i])
        IN [cell |-> ch.cell,
            id |-> LastWrite(tbl, sets, ch.cell, "id", ch.id),
            type |-> LastWrite(tbl, sets, ch.cell, "type", ch.type),
            content |-> LastWrite(tbl, sets, ch.cell, "content", ch.content)]]

\* title.toString() as the sequence of its live segments.
DocTitle(tbl, d) ==
  LET tch == Ops(tbl, d, "title")
      dead == UNION {ChangeAt(tbl, tch[i]).del : i \in 1..Len(tch)}
      live == SelectSeq(tch, LAMBDA p : p[1] \notin dead)
  IN [i \in 1..Len(live) |-> ChangeAt(tbl, live[i]).content.v]

TitleSegments(tbl, d) ==
  LET tch == Ops(tbl, d, "title")
      dead == UNION {ChangeAt(tbl, tch[i]).del : i \in 1..Len(tch)}
  IN {tch[i][1] : i \in 1..Len(tch)} \ dead

(***************************************************************************)
(* Y.encodeStateAsUpdate / Y.applyUpdate: the snapshot lists the updates   *)
(* of the document in increasing order; applying it integrates each one.   *)
(***************************************************************************)
RECURSIVE SortedSeq(_)
SortedSeq(S) ==
  IF S = {} THEN <<>>
  ELSE LET m == CHOOSE x \in S : \A y \in S : x <= y
       IN <<m>> \o SortedSeq(S \ {m})

encodeStateAsUpdate(d) == SortedSeq(d)

applyUpdate(d, bytes) == d \cup {bytes[i] : i \in 1..Len(bytes)}

\* Faulty slice: the end taken one byte short.
toArrayBufferShort(data) == SubSeq(data, 1, Len(data) - 1)

\* toArrayBuffer(data): data.buffer.slice(byteOffset, byteOffset + byteLength)
toArrayBuffer(data) == SubSeq(data, 1, Len(data))

NoBytes == [has |-> FALSE, bytes |-> <<>>]
Bytes(b) == [has |-> TRUE, bytes |-> b]

\* Faulty seeding: the two cells are pushed in the other order.
initDefaultNotebookSwapped(tbl, d, n, k) ==
  [ch |-> <<TitleCh(DEFAULT_NOTEBOOK_TITLE, {}),
            InsCell(n, 2, Str(randomId(k + 1)), Str("code"),
                    YText(DEFAULT_NOTEBOOK_CODE)),
            InsCell(n, 3, Str(randomId(k + 2)), Str("markdown"),
                    YText(DEFAULT_NOTEBOOK_MD))>>,
   k |-> k + 2]

(***************************************************************************)
(* initDefaultNotebook(doc): the changes it makes to document d, drawing   *)
(* ids from the k-th random id on; n is the number of the new update.      *)
(***************************************************************************)
initDefaultNotebook(tbl, d, n, k) ==
  LET title == IF DocTitle(tbl, d) = <<>>
               THEN <<TitleCh(DEFAULT_NOTEBOOK_TITLE, {})>> ELSE <<>>
      cells == IF Len(DocCells(tbl, d)) > 0 THEN <<>>
               ELSE <<InsCell(n, Len(title) + 1, Str(randomId(k + 1)),
                              Str("markdown"), YText(DEFAULT_NOTEBOOK_MD)),
                      InsCell(n, Len(title) + 2, Str(randomId(k + 2)),
                              Str("code"), YText(DEFAULT_NOTEBOOK_CODE))>>
  IN [ch |-> title \o cells, k |-> IF cells = <<>> THEN k ELSE k + 2]

(***************************************************************************)
(* sanitizeNotebookCells(doc).                                             *)
(***************************************************************************)
\* String.prototype.trim on the strings of the model.
Trim(s) ==
  IF s = " 7" THEN "7" ELSE IF s = " s" THEN "s" ELSE IF s = " " THEN "" ELSE s

\* typeof rawId === "string" ? rawId : rawId == null ? "" : String(rawId)
IdString(raw) == IF raw.t = "nil" THEN "" ELSE raw.v

\* Faulty test: the `!` of `!id` left out.
NeedsMintNegated(id, usedIds) == id # "" \/ id \in usedIds

\* Faulty test: `|| usedIds.has(id)` left out.
NeedsMintWhenEmpty(id, usedIds) == id = ""

\* if (!id || usedIds.has(id))
NeedsMint(id, usedIds) == id = "" \/ id \in usedIds

RECURSIVE SanitizeFrom(_, _, _, _)
\* The loop body from cell i on: the cell.set calls made (one "set" change
\* per mutated cell) and the number of random ids drawn.
SanitizeFrom(cells, i, usedIds, k) ==
  IF i > Len(cells) THEN [ch |-> <<>>, k |-> k]
  ELSE LET cell == cells[i]
           rawId == cell.id
           trimmed == Trim(IdString(rawId))
           mint == NeedsMint(trimmed, usedIds)
           id == IF mint THEN randomId(k + 1) ELSE trimmed
           idSet == IF mint \/ rawId # Str(id) THEN Str(id) ELSE Keep
           typeSet == IF cell.type # Str("code") /\ cell.type # Str("markdown")
                      THEN Str("code") ELSE Keep
           contentSet == IF cell.content.t # "text"
                         THEN YText(IF cell.content.t = "str"
                                    THEN cell.content.v ELSE "")
                         ELSE Keep
           rest == SanitizeFrom(cells, i + 1, usedIds \cup {id},
                                IF mint THEN k + 1 ELSE k)
           here == IF idSet = Keep /\ typeSet = Keep /\ contentSet = Keep
                   THEN <<>>
                   ELSE <<SetCell(cell.cell, idSet, typeSet, contentSet)>>
       IN [ch |-> here \o rest.ch, k |-> rest.k]

\* [ch, k]: ch # <<>> is the `mutated` result.
sanitizeNotebookCells(tbl, d, k) == SanitizeFrom(DocCells(tbl, d), 1, {}, k)

(***************************************************************************)
(* Frames.  "step1" carries a state vector (the updates the sender has),   *)
(* "step2" and "update" carry updates, "awareness" carries entries         *)
(* [id, clock, live]; "close" is the close event of the socket, which the  *)
(* runtime delivers after the frames sent before it.                       *)
(***************************************************************************)
Frame(t, ups, aw) == [t |-> t, ups |-> ups, aw |-> aw]
SyncStep1(d) == Frame("step1", d, {})
SyncStep2(d, sv) == Frame("step2", d \ sv, {})
SyncUpdate(ups) == Frame("update", ups, {})
AwarenessFrame(entries) == Frame("awareness", {}, entries)
CloseEvent == Frame("close", {}, {})

\* Faulty send: the message overtakes the ones that wait on the socket.
sendFirst(q, ws, message) ==
  IF cconn[ws] = "closed" THEN q ELSE [q EXCEPT ![ws] = <<message>> \o @]

\* send(ws, message): ws.send throws on a closed socket and the error is
\* swallowed.
send(q, ws, message) ==
  IF cconn[ws] = "closed" THEN q ELSE [q EXCEPT ![ws] = Append(@, message)]

\* Faulty broadcast: the excluded socket is sent the message too.
broadcastEcho(q, ss, message, exclude) ==
  [ws \in Clients |-> IF ws \in ss THEN send(q, ws, message)[ws] ELSE q[ws]]

\* broadcast(message, exclude) over the sockets ss.
broadcast(q, ss, message, exclude) ==
  [ws \in Clients |->
     IF ws \in ss /\ ws # exclude THEN send(q, ws, message)[ws] ELSE q[ws]]

\* Faulty broadcastUpdate: the update frame is built and never sent.
broadcastUpdateUnsent(q, ss, ups, origin) == q

\* broadcastUpdate(update, origin); origin is a socket or "none".
broadcastUpdate(q, ss, ups, origin) ==
  broadcast(q, ss, SyncUpdate(ups), origin)

\* Faulty schedulePersist: the flag is set and setAlarm is never called.
schedulePersistNoAlarm(st) ==
  IF st.pending THEN st
  ELSE [pending |-> TRUE, alarm |-> st.alarm, moved |-> st.moved]

\* Faulty schedulePersist: `if (this.persistPending) return` left out.
schedulePersistAlways(st) ==
  [pending |-> TRUE, alarm |-> TRUE, moved |-> st.moved \/ st.alarm]

\* schedulePersist() on st = [pending, alarm, moved]; storage.setAlarm
\* replaces an alarm that is already set (moved: its time was pushed back).
schedulePersist(st) ==
  IF st.pending THEN st
  ELSE [pending |-> TRUE, alarm |-> TRUE, moved |-> st.moved \/ st.alarm]

\* Faulty handler: `if (this.initializing) return` left out.
onDocUpdateUngated(init, q, ss, ups, origin, st) ==
  [q |-> broadcastUpdate(q, ss, ups, origin), st |-> schedulePersist(st)]

\* The doc "update" handler: what it leaves of the outgoing queues and of
\* the persistence state.
onDocUpdate(init, q, ss, ups, origin, st) ==
  IF init THEN [q |-> q, st |-> st]
  ELSE [q |-> broadcastUpdate(q, ss, ups, origin), st |-> schedulePersist(st)]

PersistState == [pending |-> persistPending, alarm |-> alarmSet,
                 moved |-> alarmMoved]

(***************************************************************************)
(* Awareness registry (y-protocols): id -> [known, clock, live].           *)
(***************************************************************************)
NoAwareness == [known |-> FALSE, clock |-> 0, live |-> FALSE]

\* new Awareness(doc) sets the local state {} with clock 0.
NewAwareness ==
  [id \in AwIds |-> IF id = ServerId
                    THEN [known |-> TRUE, clock |-> 0, live |-> TRUE]
                    ELSE NoAwareness]

\* awareness.getStates().keys()
AwarenessStates(reg) == {id \in AwIds : reg[id].live}

\* encodeAwarenessUpdate(awareness, ids)
encodeAwarenessUpdate(reg, ids) ==
  {[id |-> id, clock |-> reg[id].clock, live |-> reg[id].live] : id \in ids}

AwAccepts(reg, e) ==
  LET currClock == IF reg[e.id].known THEN reg[e.id].clock ELSE 0
  IN currClock < e.clock
     \/ (currClock = e.clock /\ ~e.live /\ reg[e.id].live)

\* applyAwarenessUpdate: the registry after the entries, and the ids it
\* reports as added, updated and removed.
applyAwarenessUpdate(reg, entries) ==
  LET acc == {e \in entries : AwAccepts(reg, e)}
      refused(e) == ~e.live /\ e.id = ServerId /\ reg[ServerId].live
      after(id) ==
        IF \E e \in acc : e.id = id
        THEN LET e == CHOOSE x \in acc : x.id = id
             IN IF refused(e)
                THEN [known |-> TRUE, clock |-> e.clock + 1, live |-> TRUE]
                ELSE [known |-> TRUE, clock |-> e.clock, live |-> e.live]
        ELSE reg[id]
  IN [reg |-> [id \in AwIds |-> after(id)],
      added |-> {e.id : e \in {x \in acc : ~reg[x.id].known /\ x.live}},
      removed |-> {e.id : e \in {x \in acc : reg[x.id].known /\ ~x.live}},
      updated |-> {e.id : e \in {x \in acc : reg[x.id].known /\ x.live}}]

\* removeAwarenessStates(awareness, ids, origin): the registry after, and
\* the ids removed.
removeAwarenessStates(reg, ids) ==
  LET gone == {id \in ids : reg[id].live}
  IN [reg |-> [id \in AwIds |->
                 IF id \in gone
                 THEN [known |-> TRUE,
                       clock |-> IF id = ServerId THEN reg[id].clock + 1
                                 ELSE reg[id].clock,
                       live |-> FALSE]
                 ELSE reg[id]],
      removed |-> gone]

(***************************************************************************)
(* Initial state: the constructor has run up to blockConcurrencyWhile, no  *)
(* snapshot is stored, no client has connected.                            *)
(***************************************************************************)
InitCoordinator ==
  /\ pc = "hydrate"
  /\ doc = {}
  /\ initializing = TRUE
  /\ persistPending = FALSE
  /\ awareness = NewAwareness
  /\ socks = {}
  /\ attach = [c \in Clients |-> {}]

NoInput == [op |-> "none"]
NoOutput == [op |-> "none"]

InitAux ==
  /\ input = NoInput
  /\ output = NoOutput

InitRest ==
  /\ nUuid = 0
  /\ alarmSet = FALSE
  /\ alarmMoved = FALSE
  /\ writing = [has |-> FALSE, bytes |-> <<>>, of |-> {}]
  /\ written = {}
  /\ activations = 1
  /\ cdoc = [c \in Clients |-> {}]
  /\ cconn = [c \in Clients |-> "new"]
  /\ c2s = [c \in Clients |-> <<>>]
  /\ s2c = [c \in Clients |-> <<>>]

\* A coordinator and its sessions, before anything has run.
InitNotebook ==
  /\ updates = <<>>
  /\ stored = NoBytes
  /\ InitCoordinator
  /\ InitRest

Init ==
  /\ InitNotebook
  /\ InitAux

\* Faulty persistSnapshot: the flag is not cleared before the put.
persistSnapshotKeepsFlag(d) ==
  [pending |-> persistPending, bytes |-> toArrayBuffer(encodeStateAsUpdate(d))]

\* persistSnapshot(), up to the await: the flag it leaves and the bytes it
\* hands to storage.put.
persistSnapshot(d) ==
  [pending |-> FALSE, bytes |-> toArrayBuffer(encodeStateAsUpdate(d))]

(***************************************************************************)
(* Cold start: the blockConcurrencyWhile callback, in its two steps.       *)
(* Nothing else of the coordinator runs until it has finished (Ready).     *)
(***************************************************************************)
Ready == pc = "ready"

\* const stored = await storage.get(STORAGE_KEY); if (stored) applyUpdate
\* else { initDefaultNotebook; await persistSnapshot() }
Hydrate ==
  /\ pc = "hydrate"
  /\ pc' = "sanitize"
  /\ IF stored.has
     THEN LET d == applyUpdate(doc, stored.bytes)
              h == IF d = doc THEN [q |-> s2c, st |-> PersistState]
                   ELSE onDocUpdate(initializing, s2c, socks, d \ doc, "none",
                                    PersistState)
          IN /\ doc' = d
             /\ s2c' = h.q
             /\ persistPending' = h.st.pending
             /\ alarmSet' = h.st.alarm
             /\ alarmMoved' = h.st.moved
             /\ UNCHANGED <<updates, nUuid, stored, written>>
     ELSE LET n == Len(updates) + 1
              r == initDefaultNotebook(updates, doc, n, nUuid)
              h == onDocUpdate(initializing, s2c, socks, {n}, "none",
                               PersistState)
          IN /\ updates' = Append(updates, Update(ServerId, r.ch))
             /\ nUuid' = r.k
             /\ doc' = doc \cup {n}
             /\ s2c' = h.q
             /\ alarmSet' = h.st.alarm
             /\ alarmMoved' = h.st.moved
             \* persistSnapshot()
             /\ persistPending' = persistSnapshot(doc').pending
             /\ stored' = Bytes(persistSnapshot(doc').bytes)
             /\ written' = doc'
  /\ UNCHANGED <<initializing, writing, activations, awareness, socks,
                 attach, cdoc, cconn, c2s>>
  /\ UNCHANGED aux

\* const sanitized = sanitizeNotebookCells(doc);
\* if (sanitized) await persistSnapshot(); this.initializing = false
SanitizeOnLoad ==
  /\ pc = "sanitize"
  /\ pc' = "ready"
  /\ initializing' = FALSE
  /\ LET n == Len(updates) + 1
         r == sanitizeNotebookCells(updates, doc, nUuid)
         h == onDocUpdate(initializing, s2c, socks, {n}, "none", PersistState)
     IN IF r.ch # <<>>
        THEN /\ updates' = Append(updates, Update(ServerId, r.ch))
             /\ nUuid' = r.k
             /\ doc' = doc \cup {n}
             /\ s2c' = h.q
             /\ alarmSet' = h.st.alarm
             /\ alarmMoved' = h.st.moved
             /\ persistPending' = persistSnapshot(doc').pending
             /\ stored' = Bytes(persistSnapshot(doc').bytes)
             /\ written' = doc'
        ELSE UNCHANGED <<updates, nUuid, doc, s2c, alarmSet, alarmMoved,
                         persistPending, stored, written>>
  /\ UNCHANGED <<writing, activations, awareness, socks, attach, cdoc, cconn,
                 c2s>>
  /\ UNCHANGED aux

(***************************************************************************)
(* The coordinator's handlers.  Each runs to completion (one thread).      *)
(***************************************************************************)

\* sendInitialSync(ws): sync step 1, then the awareness states if any.
sendInitialSync(q, ws, d, reg) ==
  LET q1 == send(q, ws, SyncStep1(d))
      states == AwarenessStates(reg)
  IN IF states # {}
     THEN send(q1, ws, AwarenessFrame(encodeAwarenessUpdate(reg, states)))
     ELSE q1

\* Faulty order: the socket is accepted before the sanitize runs.
SocketsAfterAccept(ss, ws) == ss \cup {ws}

\* handleWebSocket(): the sockets that get the update of the sanitize that
\* runs before the new socket ws is accepted.
SocketsAtSanitize(ss, ws) == ss

\* fetch(request) with Upgrade: websocket, for client c.
HandleWebSocket(c) ==
  /\ Ready
  /\ cconn[c] = "new"
  /\ LET n == Len(updates) + 1
         r == sanitizeNotebookCells(updates, doc, nUuid)
         mutated == r.ch # <<>>
         h == IF mutated
              THEN onDocUpdate(initializing, s2c, SocketsAtSanitize(socks, c),
                               {n}, "none", PersistState)
              ELSE [q |-> s2c, st |-> PersistState]
     IN /\ updates' = IF mutated THEN Append(updates, Update(ServerId, r.ch))
                      ELSE updates
        /\ nUuid' = r.k
        /\ doc' = IF mutated THEN doc \cup {n} ELSE doc
        /\ persistPending' = h.st.pending
        /\ alarmSet' = h.st.alarm
        /\ alarmMoved' = h.st.moved
        /\ socks' = socks \cup {c}
        /\ attach' = [attach EXCEPT ![c] = {}]
        /\ s2c' = sendInitialSync(h.q, c, doc', awareness)
  /\ cconn' = [cconn EXCEPT ![c] = "accepted"]
  /\ UNCHANGED <<pc, initializing, writing, stored, written, activations,
                 awareness, cdoc, c2s>>
  /\ UNCHANGED aux

\* fetch(request) for GET /{notebookId}/snapshot: the response body.
SnapshotResponse == encodeStateAsUpdate(doc)

\* fetch(request) for GET /{notebookId}/snapshot, and the client's
\* tryApplyRemoteCollabSnapshot of the body, first thing in its bootstrap.
FetchSnapshot(c) ==
  /\ Ready
  /\ cconn[c] = "new"
  /\ cdoc[c] = {}
  /\ cdoc' = [cdoc EXCEPT ![c] =
                IF Len(SnapshotResponse) > 0
                THEN applyUpdate(@, SnapshotResponse) ELSE @]
  /\ UNCHANGED <<updates, nUuid, pc, doc, initializing, persistPending,
                 alarmSet, alarmMoved, writing, stored, written, activations,
                 awareness, socks, attach, cconn, c2s, s2c>>
  /\ UNCHANGED aux

\* readSyncMessage(decoder, encoder, doc, ws) for frame m from socket ws:
\* the reply (or "none") and the update it applies.
readSyncMessage(d, m) ==
  IF m.t = "step1"
  THEN [reply |-> <<SyncStep2(d, m.ups)>>, new |-> {}]
  ELSE [reply |-> <<>>, new |-> m.ups \ d]

\* onMessage, case MESSAGE_SYNC.
OnSync(c) ==
  /\ Ready
  /\ c \in socks
  /\ c2s[c] # <<>>
  /\ Head(c2s[c]).t \in {"step1", "step2", "update"}
  /\ LET m == Head(c2s[c])
         r == readSyncMessage(doc, m)
         h == IF r.new # {}
              THEN onDocUpdate(initializing, s2c, socks, r.new, c,
                               PersistState)
              ELSE [q |-> s2c, st |-> PersistState]
     IN /\ doc' = doc \cup r.new
        /\ persistPending' = h.st.pending
        /\ alarmSet' = h.st.alarm
        /\ alarmMoved' = h.st.moved
        /\ s2c' = IF r.reply # <<>> THEN send(h.q, c, r.reply[1]) ELSE h.q
  /\ c2s' = [c2s EXCEPT ![c] = Tail(@)]
  /\ UNCHANGED <<updates, nUuid, pc, initializing, writing, stored, written,
                 activations, awareness, socks, attach, cdoc, cconn>>
  /\ UNCHANGED aux

\* Faulty listener: the removed ids stay in the attachment.
ControlledKeepsRemoved(ids, added, updated, removed) ==
  (ids \cup added) \cup updated

\* The awareness "update" listener for a change reported with origin ws
\* ("none": no socket): the attachment of ws after it.
ControlledAfter(ids, added, updated, removed) ==
  ((ids \cup added) \cup updated) \ removed

\* onMessage, case MESSAGE_AWARENESS.
OnAwareness(c) ==
  /\ Ready
  /\ c \in socks
  /\ c2s[c] # <<>>
  /\ Head(c2s[c]).t = "awareness"
  /\ LET m == Head(c2s[c])
         r == applyAwarenessUpdate(awareness, m.aw)
         changed == (r.added \cup r.updated) \cup r.removed
     IN /\ awareness' = r.reg
        /\ IF changed = {}
           THEN UNCHANGED <<attach, s2c>>
           ELSE /\ attach' = [attach EXCEPT ![c] =
                      ControlledAfter(@, r.added, r.updated, r.removed)]
                /\ s2c' = broadcast(s2c, socks,
                      AwarenessFrame(encodeAwarenessUpdate(r.reg, changed)), c)
  /\ c2s' = [c2s EXCEPT ![c] = Tail(@)]
  /\ UNCHANGED <<updates, nUuid, pc, doc, initializing, persistPending,
                 alarmSet, alarmMoved, writing, stored, written, activations,
                 socks, cdoc, cconn>>
  /\ UNCHANGED aux

\* webSocketClose / webSocketError -> onClose(ws); the socket leaves
\* getWebSockets().
WebSocketClose(c) ==
  /\ Ready
  /\ c \in socks
  /\ c2s[c] # <<>>
  /\ Head(c2s[c]).t = "close"
  /\ LET r == removeAwarenessStates(awareness, attach[c])
     IN /\ awareness' = r.reg
        /\ s2c' = IF r.removed = {} THEN s2c
                  ELSE broadcast(s2c, socks \ {c},
                         AwarenessFrame(encodeAwarenessUpdate(r.reg, r.removed)),
                         "none")
  /\ socks' = socks \ {c}
  /\ c2s' = [c2s EXCEPT ![c] = Tail(@)]
  /\ UNCHANGED <<updates, nUuid, pc, doc, initializing, persistPending,
                 alarmSet, alarmMoved, writing, stored, written, activations,
                 attach, cdoc, cconn>>
  /\ UNCHANGED aux

\* alarm(): the scheduled alarm fires and persistSnapshot starts its put.
Alarm ==
  /\ Ready
  /\ alarmSet
  /\ ~writing.has
  /\ alarmSet' = FALSE
  /\ LET p == persistSnapshot(doc)
     IN /\ persistPending' = p.pending
        /\ writing' = [has |-> TRUE, bytes |-> p.bytes, of |-> doc]
  /\ UNCHANGED <<updates, nUuid, pc, doc, initializing, alarmMoved, stored,
                 written, activations, awareness, socks, attach, cdoc, cconn,
                 c2s, s2c>>
  /\ UNCHANGED aux

\* await storage.put(STORAGE_KEY, snapshot) completes.
WriteDone ==
  /\ writing.has
  /\ stored' = Bytes(writing.bytes)
  /\ written' = writing.of
  /\ writing' = [has |-> FALSE, bytes |-> <<>>, of |-> {}]
  /\ UNCHANGED <<updates, nUuid, pc, doc, initializing, persistPending,
                 alarmSet, alarmMoved, activations, awareness, socks, attach,
                 cdoc, cconn, c2s, s2c>>
  /\ UNCHANGED aux

\* The runtime evicts the idle instance (no socket, no alarm, no put in
\* flight) and the next request constructs a new one: the constructor up to
\* blockConcurrencyWhile.
Reactivate ==
  /\ Ready
  /\ socks = {}
  /\ ~alarmSet
  /\ ~writing.has
  /\ activations < MaxActivations
  /\ activations' = activations + 1
  /\ pc' = "hydrate"
  /\ doc' = {}
  /\ initializing' = TRUE
  /\ persistPending' = FALSE
  /\ awareness' = NewAwareness
  /\ attach' = [c \in Clients |-> {}]
  /\ UNCHANGED <<updates, nUuid, alarmSet, alarmMoved, writing, stored,
                 written, socks, cdoc, cconn, c2s, s2c>>
  /\ UNCHANGED aux

(***************************************************************************)
(* Client sessions: a Y.Doc and a WebsocketProvider.                       *)
(***************************************************************************)

\* generateId() of the session that makes update n (crypto.randomUUID, taken as
\* never repeating).
generateId(n) == "gen-" \o ToString(n)

\* Cells a client update may insert: the cell of addCell, and a cell as an
\* older client writes it, which breaks the document invariants (untrimmed
\* id, unknown type, plain string content).
ClientCells(n) ==
  { [id |-> Str(generateId(n)), type |-> Str("code"), content |-> YText("")],
    [id |-> Str(" 7"), type |-> Str("raw"), content |-> Str("x")] }

\* The changes of a local edit of client c on its document.
EditChanges(c, n) ==
  { <<TitleCh("Hello", TitleSegments(updates, cdoc[c]))>> }
  \cup { <<InsCell(n, 1, x.id, x.type, x.content)>> : x \in ClientCells(n) }

\* Number of local edits made by clients so far.
Edits == Cardinality({n \in 1..Len(updates) : updates[n].by \in Clients})

\* A local transaction on the client's document; the provider's update
\* handler sends it when the socket is open.
ClientEdit(c) ==
  /\ cconn[c] # "closed"
  /\ Edits < MaxEdits
  /\ \E ch \in EditChanges(c, Len(updates) + 1) :
       updates' = Append(updates, Update(c, ch))
  /\ cdoc' = [cdoc EXCEPT ![c] = @ \cup {Len(updates) + 1}]
  /\ c2s' = IF cconn[c] = "open"
            THEN [c2s EXCEPT ![c] = Append(@, SyncUpdate({Len(updates) + 1}))]
            ELSE c2s
  /\ UNCHANGED <<nUuid, pc, doc, initializing, persistPending, alarmSet,
                 alarmMoved, writing, stored, written, activations,
                 awareness, socks, attach, cconn, s2c>>
  /\ UNCHANGED aux

\* websocket.onopen: sync step 1 and the local awareness state.
ClientOpen(c) ==
  /\ cconn[c] = "accepted"
  /\ cconn' = [cconn EXCEPT ![c] = "open"]
  /\ c2s' = [c2s EXCEPT ![c] =
               @ \o <<SyncStep1(cdoc[c]),
                      AwarenessFrame({[id |-> c, clock |-> 1, live |-> TRUE]})>>]
  /\ UNCHANGED <<updates, nUuid, pc, doc, initializing, persistPending,
                 alarmSet, alarmMoved, writing, stored, written, activations,
                 awareness, socks, attach, cdoc, s2c>>
  /\ UNCHANGED aux

\* websocket.onmessage.
ClientReceive(c) ==
  /\ cconn[c] = "open"
  /\ s2c[c] # <<>>
  /\ LET m == Head(s2c[c])
     IN /\ cdoc' = [cdoc EXCEPT ![c] =
                      IF m.t \in {"step2", "update"} THEN @ \cup m.ups ELSE @]
        /\ c2s' = IF m.t = "step1"
                  THEN [c2s EXCEPT ![c] = Append(@, SyncStep2(cdoc[c], m.ups))]
                  ELSE c2s
  /\ s2c' = [s2c EXCEPT ![c] = Tail(@)]
  /\ UNCHANGED <<updates, nUuid, pc, doc, initializing, persistPending,
                 alarmSet, alarmMoved, writing, stored, written, activations,
                 awareness, socks, attach, cconn>>
  /\ UNCHANGED aux

\* provider.destroy() or the tab going away: the socket closes.
ClientClose(c) ==
  /\ cconn[c] = "open"
  /\ c2s[c] = <<>>
  /\ cconn' = [cconn EXCEPT ![c] = "closed"]
  /\ c2s' = [c2s EXCEPT ![c] = Append(@, CloseEvent)]
  /\ s2c' = [s2c EXCEPT ![c] = <<>>]
  /\ UNCHANGED <<updates, nUuid, pc, doc, initializing, persistPending,
                 alarmSet, alarmMoved, writing, stored, written, activations,
                 awareness, socks, attach, cdoc>>
  /\ UNCHANGED aux

\* The sessions are named in the order in which they connect: A is the one
\* whose upgrade request comes first.
InOrder(c) == c = "B" => cconn["A"] # "new"

HandleWebSocketInOrder(c) == InOrder(c) /\ HandleWebSocket(c)

\* A later session: it connects when the socket before it has closed (the
\* writer has gone).
HandleWebSocketAlone(c) ==
  /\ InOrder(c)
  /\ \A o \in Clients \ {c} : cconn[o] \in {"new", "closed"} /\ o \notin socks
  /\ HandleWebSocket(c)

(***************************************************************************)
(* Spec: sessions that are connected to one coordinator instance at the    *)
(* same time (sync and awareness traffic in every interleaving).           *)
(***************************************************************************)
Next ==
  \/ Hydrate
  \/ SanitizeOnLoad
  \/ \E c \in Clients : HandleWebSocketInOrder(c)
  \/ \E c \in Clients : OnSync(c)
  \/ \E c \in Clients : OnAwareness(c)
  \/ \E c \in Clients : ClientEdit(c)
  \/ \E c \in Clients : ClientOpen(c)
  \/ \E c \in Clients : ClientReceive(c)

Spec == Init /\ [][Next]_vars

(***************************************************************************)
(* SpecPersist: the coordinator over its whole life (alarms, snapshot      *)
(* writes, eviction and cold start), with sessions that come one after the *)
(* other.                                                                  *)
(***************************************************************************)
NextPersist ==
  \/ Hydrate
  \/ SanitizeOnLoad
  \/ Alarm
  \/ WriteDone
  \/ Reactivate
  \/ \E c \in Clients : HandleWebSocketAlone(c)
  \/ \E c \in Clients : FetchSnapshot(c)
  \/ \E c \in Clients : OnSync(c)
  \/ \E c \in Clients : OnAwareness(c)
  \/ \E c \in Clients : WebSocketClose(c)
  \/ \E c \in Clients : ClientEdit(c)
  \/ \E c \in Clients : ClientOpen(c)
  \/ \E c \in Clients : ClientReceive(c)
  \/ \E c \in Clients : ClientClose(c)

SpecPersist == Init /\ [][NextPersist]_vars

(***************************************************************************)
(* SpecCold: cold start (hydrate, then sanitize) over stored snapshots     *)
(* whose cells hold every combination of the raw values below.             *)
(***************************************************************************)
MaxColdCells == 2

RawIds == {Str("7"), Str(" 7"), Str(""), Nil, Num("7"), Str("b")}
RawTypes == {Str("code"), Str("markdown"), Str("raw")}
RawContents == {YText("x"), Str("x"), Nil}
RawCells == [id : RawIds, type : RawTypes, content : RawContents]

\* A snapshot written by an earlier instance: one update that inserts cells.
StoredCells(cs) ==
  [k \in 1..Len(cs) |-> InsCell(1, k, cs[k].id, cs[k].type, cs[k].content)]

InitCold ==
  /\ \E m \in 1..MaxColdCells : \E cs \in [1..m -> RawCells] :
       updates = <<Update("old", StoredCells(cs))>>
  /\ stored = Bytes(<<1>>)
  /\ InitCoordinator
  /\ InitRest
  /\ InitAux

NextCold ==
  \/ Hydrate
  \/ SanitizeOnLoad

SpecCold == (Init \/ InitCold) /\ [][NextCold]_vars

(***************************************************************************)
(* The document invariants of the data model.                              *)
(***************************************************************************)
ValidCell(x) ==
  /\ x.id.t = "str"
  /\ x.id.v # ""
  /\ x.type \in {Str("code"), Str("markdown")}
  /\ x.content.t = "text"

ValidCells(cells) ==
  /\ \A i \in 1..Len(cells) : ValidCell(cells[i])
  /\ \A i, j \in 1..Len(cells) : i # j => cells[i].id # cells[j].id

IsDefaultNotebook(tbl, d) ==
  LET cells == DocCells(tbl, d)
  IN /\ DocTitle(tbl, d) = <<DEFAULT_NOTEBOOK_TITLE>>
     /\ Len(cells) = 2
     /\ cells[1].type = Str("markdown")
     /\ cells[1].content = YText(DEFAULT_NOTEBOOK_MD)
     /\ cells[2].type = Str("code")
     /\ cells[2].content = YText(DEFAULT_NOTEBOOK_CODE)

AuthoredBy(c, d) == {n \in d : updates[n].by = c}

(***************************************************************************)
(* C1: when both sessions are open and no frame is in flight on either     *)
(* socket, the documents at A, at B and at the coordinator hold the same   *)
(* updates.                                                                *)
(***************************************************************************)
Quiescent ==
  \A c \in Clients : cconn[c] = "open" /\ c2s[c] = <<>> /\ s2c[c] = <<>>

C1_Convergence == Quiescent => \A c \in Clients : cdoc[c] = doc

\* Both sessions have made an edit and everything has been delivered.
C1_Witness ==
  /\ Quiescent
  /\ \A c \in Clients : AuthoredBy(c, doc) # {}

(***************************************************************************)
(* C2: when the coordinator applies an update received from socket S (a    *)
(* sync step 2 or an update frame that brings something new), it appends   *)
(* the update frame to every other accepted socket and nothing to S.       *)
(***************************************************************************)
AppliesFrom(S) ==
  /\ S \in socks
  /\ c2s[S] # <<>>
  /\ Head(c2s[S]).t \in {"step2", "update"}
  /\ c2s'[S] = Tail(c2s[S])
  /\ doc' # doc

C2_NoEcho ==
  [][\A S \in Clients :
       AppliesFrom(S) =>
         /\ s2c'[S] = s2c[S]
         /\ \A o \in socks \ {S} :
              s2c'[o] = Append(s2c[o], SyncUpdate(doc' \ doc))]_vars

\* An update made by A is in flight to B, and none to A.
C2_Witness ==
  /\ \E i \in 1..Len(s2c["B"]) :
       /\ s2c["B"][i].t = "update"
       /\ AuthoredBy("A", s2c["B"][i].ups) # {}
  /\ \A i \in 1..Len(s2c["A"]) : s2c["A"][i].t # "update"
  /\ "A" \in socks

(***************************************************************************)
(* C3: nothing is sent on a socket before it is accepted, and acceptance   *)
(* sends sync step 1 first, followed by one awareness frame with all the   *)
(* current states exactly when the registry is not empty.                  *)
(***************************************************************************)
C3_FirstFrame ==
  [][\A c \in Clients :
       (c \notin socks /\ c \in socks') =>
         /\ s2c[c] = <<>>
         /\ s2c'[c] =
              <<SyncStep1(doc')>> \o
              (IF AwarenessStates(awareness) # {}
               THEN <<AwarenessFrame(encodeAwarenessUpdate(
                        awareness, AwarenessStates(awareness)))>>
               ELSE <<>>)]_vars

\* B has just been accepted by an upgrade whose sanitize changed the
\* document: the update went to A, and B holds step 1 and awareness only.
C3_Witness ==
  /\ cconn["B"] = "accepted"
  /\ Len(s2c["B"]) = 2
  /\ \E i \in 1..Len(s2c["A"]) :
       /\ s2c["A"][i].t = "update"
       /\ AuthoredBy(ServerId, s2c["A"][i].ups) # {}

C5_AlwaysValid ==
  Ready =>
    LET cells == DocCells(updates, doc)
    IN /\ \A i \in 1..Len(cells) :
            /\ cells[i].id.t = "str" /\ cells[i].id.v # ""
            /\ cells[i].type \in {Str("code"), Str("markdown")}
       /\ \A i, j \in 1..Len(cells) : i # j => cells[i].id # cells[j].id

FairPersist == SpecPersist /\ WF_vars(Alarm) /\ WF_vars(WriteDone)

StoredDoc == IF stored.has THEN applyUpdate({}, stored.bytes) ELSE {}

(***************************************************************************)
(* C7: the stored snapshot never loses an update, and again and again it   *)
(* holds every update of the ready coordinator's document: every update    *)
(* the coordinator has applied is eventually stored, for good.  Whenever   *)
(* the coordinator is ready with no alarm set and no put in flight, the    *)
(* stored snapshot is its document, so an instance constructed later       *)
(* hydrates every update a closed writer had delivered.                    *)
(***************************************************************************)
C7_EventuallyStored ==
  /\ []<>(Ready => doc \subseteq StoredDoc)
  /\ [][StoredDoc \subseteq StoredDoc']_vars
  /\ []((Ready /\ ~alarmSet /\ ~writing.has) => StoredDoc = doc)

\* The writer A has closed, the coordinator was constructed again, and B,
\* connected to the new instance, holds A's update after its first sync.
C7_Witness ==
  /\ activations = 2
  /\ cconn["A"] = "closed"
  /\ cconn["B"] = "open"
  /\ AuthoredBy("A", cdoc["B"]) # {}
  /\ AuthoredBy("B", cdoc["B"]) = {}

(***************************************************************************)
(* C8: setAlarm is called only when persistPending is false and never      *)
(* while an alarm is set; the alarm handler clears persistPending and      *)
(* starts one put of the current document; an update applied while a put   *)
(* is in flight leaves persistPending true and an alarm set.               *)
(***************************************************************************)
AlarmFires == alarmSet /\ ~alarmSet'
DocGrows == Ready /\ Ready' /\ doc' # doc

C8_Coalescing ==
  [][/\ ~alarmMoved'
     /\ (~alarmSet /\ alarmSet') => (~persistPending /\ persistPending')
     /\ (persistPending /\ persistPending') => alarmSet' = alarmSet
     /\ (~writing.has /\ writing'.has) => AlarmFires
     /\ AlarmFires =>
          (~persistPending' /\ writing'.has /\ writing'.of = doc
           /\ ~writing.has)
     /\ DocGrows => (persistPending' /\ alarmSet')]_vars

\* A put is in flight and an update applied meanwhile has set a follow-up
\* alarm.
C8_Witness ==
  /\ writing.has
  /\ alarmSet
  /\ persistPending
  /\ doc # writing.of

(***************************************************************************)
(* C9: a coordinator constructed with no stored snapshot holds the default *)
(* template after hydrate and after sanitize, has stored its snapshot      *)
(* before it is ready, and a ready coordinator answers the snapshot        *)
(* request with a non-empty body.                                          *)
(***************************************************************************)
C9_DefaultSeed ==
  [][/\ (pc = "hydrate" /\ ~stored.has /\ pc' = "sanitize") =>
          /\ IsDefaultNotebook(updates', doc')
          /\ stored'.has
          /\ applyUpdate({}, stored'.bytes) = doc'
     /\ (pc = "sanitize" /\ pc' = "ready" /\ IsDefaultNotebook(updates, doc)) =>
          /\ doc' = doc
          /\ stored' = stored
     /\ Ready' => (stored'.has /\ Len(encodeStateAsUpdate(doc')) > 0)]_vars

\* A session has loaded the snapshot of the freshly seeded notebook.
C9_Witness ==
  \E c \in Clients :
    /\ cconn[c] = "new"
    /\ cdoc[c] # {}
    /\ IsDefaultNotebook(updates, cdoc[c])
    /\ cdoc[c] = StoredDoc

(***************************************************************************)
(* C10: initializing is true exactly until sanitize has completed, and a   *)
(* step taken while it is true serves no request: no socket is accepted,   *)
(* no frame is consumed or sent, the awareness registry, the alarm and the *)
(* put in flight are left alone, and a session's document changes only by  *)
(* its own edit.                                                           *)
(***************************************************************************)
C10_BlockedWhileInitializing ==
  [][/\ initializing' <=> pc' # "ready"
     /\ initializing =>
          /\ s2c' = s2c
          /\ socks' = socks
          /\ awareness' = awareness
          /\ attach' = attach
          /\ alarmSet' = alarmSet
          /\ ~persistPending'
          /\ writing' = writing
          /\ \A c \in Clients :
               /\ Len(c2s'[c]) >= Len(c2s[c])
               /\ SubSeq(c2s'[c], 1, Len(c2s[c])) = c2s[c]
               /\ cdoc'[c] \subseteq
                    cdoc[c] \cup {n \in 1..Len(updates') : updates'[n].by = c}]_vars

\* A second instance is between hydrate and sanitize, holding a document
\* that sanitize will change, while a session is waiting to connect.
C10_Witness ==
  /\ pc = "sanitize"
  /\ initializing
  /\ ~ValidCells(DocCells(updates, doc))
  /\ \E c \in Clients : cconn[c] = "new"

(***************************************************************************)
(* The gateway: fetch(request, env) of the Worker.  A request is           *)
(* [method, upgrade, path, token]: path is url.pathname split at "/" with  *)
(* the empty parts dropped, token the `token` query parameter (Nil when    *)
(* absent).  env is the value of COLLAB_AUTH_TOKEN (Nil when not set).     *)
(* The response is [status, forwarded]: forwarded tells that stub.fetch    *)
(* of the coordinator was called.                                          *)
(***************************************************************************)
Response(status, forwarded) ==
  [op |-> "response", status |-> status, forwarded |-> forwarded]

\* NotebookDO.fetch(request) as the gateway sees it: the status it answers.
CoordinatorStatus(request) ==
  IF request.upgrade THEN 101
  ELSE IF request.method = "GET"
          /\ request.path[Len(request.path)] = "snapshot" THEN 200
  ELSE 426

\* env.COLLAB_AUTH_TOKEN?.trim(): "" stands for undefined as well, both falsy.
RequiredToken(env) == IF env.t = "nil" THEN "" ELSE Trim(env.v)

\* url.searchParams.get("token") || ""
ProvidedToken(request) == IF request.token.t = "nil" THEN "" ELSE request.token.v

GatewayFetch(request, env) ==
  IF request.method = "OPTIONS" THEN Response(204, FALSE)
  ELSE IF request.path = <<"api", "health">> THEN Response(200, FALSE)
  ELSE IF Len(request.path) >= 2 /\ request.path[1] = "ws"
  THEN IF RequiredToken(env) # ""
          /\ ProvidedToken(request) # RequiredToken(env)
       THEN Response(401, FALSE)
       ELSE Response(CoordinatorStatus(request), TRUE)
  ELSE Response(200, FALSE)

GatewayEnvs == {Nil, Str(""), Str(" "), Str("s"), Str(" s")}
GatewayTokens == {Nil, Str(""), Str("s"), Str(" s"), Str("x")}
GatewayPaths ==
  {<<"ws", "NB1">>, <<"ws", "NB1", "snapshot">>, <<"ws">>, <<"api", "health">>,
   <<>>}
GatewayRequests ==
  [method : {"GET", "OPTIONS"}, upgrade : BOOLEAN, path : GatewayPaths,
   token : GatewayTokens]

InitGateway ==
  /\ InitNotebook
  /\ \E request \in GatewayRequests, env \in GatewayEnvs :
       input = [op |-> "fetch", request |-> request, env |-> env]
  /\ output = NoOutput

\* The Worker answers the request.
Fetch ==
  /\ input.op = "fetch"
  /\ output = NoOutput
  /\ output' = GatewayFetch(input.request, input.env)
  /\ UNCHANGED <<updates, nUuid, pc, doc, initializing, persistPending,
                 alarmSet, alarmMoved, writing, stored, written, activations,
                 awareness, socks, attach, cdoc, cconn, c2s, s2c, input>>

NextGateway ==
  \/ Fetch

SpecGateway == InitGateway /\ [][NextGateway]_vars

(***************************************************************************)
(* C11: a websocket upgrade or snapshot GET under /ws/:notebookId is       *)
(* forwarded to the coordinator exactly when no non-empty secret is        *)
(* configured or the request's token equals the configured secret;         *)
(* otherwise the answer is 401 and the coordinator is not called.          *)
(***************************************************************************)
UnderWs(request) ==
  /\ request.method = "GET"
  /\ Len(request.path) >= 2
  /\ request.path[1] = "ws"
  /\ request.upgrade \/ request.path[Len(request.path)] = "snapshot"

SecretConfigured(env) == env.t # "nil" /\ env.v # ""

C11_TokenRule ==
  (output.op = "response" /\ UnderWs(input.request)) =>
    LET allowed == \/ ~SecretConfigured(input.env)
                   \/ input.request.token = input.env
    IN /\ output.forwarded <=> allowed
       /\ ~allowed => output.status = 401

(***************************************************************************)
(* SpecCells: two sessions that sync with the coordinator and delete       *)
(* cells.                                                                  *)
(***************************************************************************)
\* deleteCell(cellId) of session c, for the id of a cell of its document:
\* refused when the local array has one cell.
ClientDelete(c) ==
  /\ cconn[c] # "closed"
  /\ Edits < MaxEdits
  /\ LET cells == DocCells(updates, cdoc[c])
         n == Len(updates) + 1
     IN /\ ~(Len(cells) <= 1)
        /\ \E index \in 1..Len(cells) :
             updates' = Append(updates, Update(c, <<DelCell(cells[index].cell)>>))
        /\ cdoc' = [cdoc EXCEPT ![c] = @ \cup {n}]
        /\ c2s' = IF cconn[c] = "open"
                  THEN [c2s EXCEPT ![c] = Append(@, SyncUpdate({n}))]
                  ELSE c2s
  /\ UNCHANGED <<nUuid, pc, doc, initializing, persistPending, alarmSet,
                 alarmMoved, writing, stored, written, activations,
                 awareness, socks, attach, cconn, s2c>>
  /\ UNCHANGED aux

NextCells ==
  \/ Hydrate
  \/ SanitizeOnLoad
  \/ \E c \in Clients : HandleWebSocketInOrder(c)
  \/ \E c \in Clients : OnSync(c)
  \/ \E c \in Clients : OnAwareness(c)
  \/ \E c \in Clients : ClientOpen(c)
  \/ \E c \in Clients : ClientReceive(c)
  \/ \E c \in Clients : ClientDelete(c)

SpecCells == Init /\ [][NextCells]_vars

(***************************************************************************)
(* C12: no replica that holds the notebook has zero cells: the document of *)
(* the ready coordinator and of every session that has received the       *)
(* seeded cells has at least one cell.                                     *)
(***************************************************************************)
Bootstrapped(d) == Ops(updates, d, "cell") # <<>>

C12_NeverZeroCells ==
  /\ Ready => Len(DocCells(updates, doc)) > 0
  /\ \A c \in Clients :
       Bootstrapped(cdoc[c]) => Len(DocCells(updates, cdoc[c])) > 0

(***************************************************************************)
(* The awareness registry as a session reads it: aw is Nil (no awareness)  *)
(* or [states, lastUpdated], states the ids of awareness.getStates() and   *)
(* lastUpdated[id] the meta entry of id: Nil when there is none, else      *)
(* Num(t) with t in milliseconds.                                          *)
(***************************************************************************)
COLLAB_STALE_MS == 60000

\* Date.now() at the call.
Now == 100000

AwarenessIds == 1..3

Max(a, b) == IF a >= b THEN a ELSE b

\* getActiveAwarenessClientIds(awareness, localClientId): the ids pushed.
getActiveAwarenessClientIds(aw, localClientId) ==
  IF aw = Nil THEN {}
  ELSE {id \in aw.states :
          \/ id = localClientId
          \/ ~(/\ aw.lastUpdated[id].t = "num"
               /\ Now - aw.lastUpdated[id].v > COLLAB_STALE_MS)}

\* getAwarenessPeerCount(awareness, localClientId)
getAwarenessPeerCount(aw, localClientId) ==
  IF aw = Nil THEN 1
  ELSE LET active == Cardinality(getActiveAwarenessClientIds(aw, localClientId))
           size == Cardinality(aw.states)
       IN Max(1, IF active # 0 THEN active ELSE IF size # 0 THEN size ELSE 1)

\* Meta entries: none, now, exactly 60 s old, older than 60 s.
LastUpdatedValues ==
  {Nil, Num(Now), Num(Now - COLLAB_STALE_MS), Num(Now - COLLAB_STALE_MS - 1)}

Registries(ids) ==
  [states : SUBSET ids, lastUpdated : [ids -> LastUpdatedValues]]

InitPeerCount ==
  /\ InitNotebook
  /\ \E aw \in Registries(AwarenessIds) \cup {Nil}, local \in AwarenessIds :
       input = [op |-> "peers", aw |-> aw, local |-> local]
  /\ output = NoOutput

\* syncPeers: setCollabPeerCount(getAwarenessPeerCount(awareness, clientID))
SyncPeers ==
  /\ input.op = "peers"
  /\ output = NoOutput
  /\ output' = [op |-> "count",
                count |-> getAwarenessPeerCount(input.aw, input.local)]
  /\ UNCHANGED <<updates, nUuid, pc, doc, initializing, persistPending,
                 alarmSet, alarmMoved, writing, stored, written, activations,
                 awareness, socks, attach, cdoc, cconn, c2s, s2c, input>>

NextPeerCount ==
  \/ SyncPeers

SpecPeerCount == InitPeerCount /\ [][NextPeerCount]_vars

(***************************************************************************)
(* SpecAutoSave: one auto-save round of the sessions of a notebook, each   *)
(* with its own view of the awareness registry and its own dirty flag.     *)
(***************************************************************************)
Sessions == {1, 2}

InitAutoSave ==
  /\ InitNotebook
  /\ \E views \in [Sessions -> Registries(Sessions)],
        dirty \in [Sessions -> BOOLEAN] :
       \* every session has set its own state (setLocalStateField)
       /\ \A s \in Sessions : s \in views[s].states
       /\ input = [op |-> "autosave", views |-> views, dirty |-> dirty]
  /\ output = [op |-> "saves", ticked |-> {}, by |-> {}]

\* const leaderId = ids.length > 0 ? Math.min(...ids) : doc.clientID
LeaderId(ids, clientID) ==
  IF ids # {} THEN CHOOSE m \in ids : \A x \in ids : m <= x ELSE clientID

\* The auto-save interval callback of session s: `by` collects the sessions
\* that call saveNotebookAsync.
AutoSaveTick(s) ==
  /\ input.op = "autosave"
  /\ s \notin output.ticked
  /\ LET ids == getActiveAwarenessClientIds(input.views[s], s)
         isLeader == LeaderId(ids, s) = s
     IN output' = [output EXCEPT
                     !.ticked = @ \cup {s},
                     !.by = IF input.dirty[s] /\ isLeader THEN @ \cup {s}
                            ELSE @]
  /\ UNCHANGED <<updates, nUuid, pc, doc, initializing, persistPending,
                 alarmSet, alarmMoved, writing, stored, written, activations,
                 awareness, socks, attach, cdoc, cconn, c2s, s2c, input>>

NextAutoSave ==
  \/ \E s \in Sessions : AutoSaveTick(s)

SpecAutoSave == InitAutoSave /\ [][NextAutoSave]_vars

(***************************************************************************)
(* C13: in an auto-save round at most one session calls the external       *)
(* write.                                                                  *)
(***************************************************************************)
C13_OneLeader == output.op = "saves" => Cardinality(output.by) <= 1

(***************************************************************************)
(* C14: the reported peer count is max(1, number of active ids), the       *)
(* active ids being the local client (when it has a state) and the other   *)
(* ids whose meta entry is not older than 60 s; a stale peer is never      *)
(* counted.                                                                *)
(***************************************************************************)
StalePeer(aw, id) ==
  /\ aw.lastUpdated[id].t = "num"
  /\ Now - aw.lastUpdated[id].v > COLLAB_STALE_MS

C14_PeerCount ==
  (output.op = "count" /\ input.aw # Nil) =>
    LET active == {id \in input.aw.states :
                     id = input.local \/ ~StalePeer(input.aw, id)}
    IN output.count = Max(1, Cardinality(active))

(***************************************************************************)
(* SpecUpgrade: cold start over the stored snapshots of SpecCold, followed *)
(* by websocket upgrades, each of which runs sanitizeNotebookCells again   *)
(* on the document the run before it left.                                 *)
(***************************************************************************)
NextUpgrade ==
  \/ Hydrate
  \/ SanitizeOnLoad
  \/ \E c \in Clients : HandleWebSocketInOrder(c)

SpecUpgrade == (Init \/ InitCold) /\ [][NextUpgrade]_vars

(***************************************************************************)
(* C15: a run of sanitizeNotebookCells directly after another makes no     *)
(* mutation: the upgrade that follows a sanitize draws no id, emits no     *)
(* update, schedules no persist and leaves the document as it was.         *)
(***************************************************************************)
C15_SanitizeIdempotent ==
  [][\A c \in Clients :
       (c \notin socks /\ c \in socks') =>
         /\ updates' = updates
         /\ doc' = doc
         /\ nUuid' = nUuid
         /\ persistPending' = persistPending
         /\ DocCells(updates', doc') = DocCells(updates, doc)]_vars

\* Sanitize has run three times (cold start and two upgrades) on a stored
\* document whose two cells both needed repair.
C15_Witness ==
  /\ socks = Clients
  /\ Len(updates) = 2
  /\ updates[1].by = "old"
  /\ Len(updates[2].ch) = 2

(***************************************************************************)
(* applyTextDiff(yText, nextValue).  A string is the sequence of its       *)
(* UTF-16 code units, which is what prevValue[i], length and the offsets   *)
(* of Y.Text count: "a" and "b" are units of the basic plane, "D83D" is a  *)
(* high surrogate, "DE00" and "DE01" are low surrogates, "FFFD" is the     *)
(* replacement character.                                                  *)
(***************************************************************************)
MaxCodePoints == 2

CodePoints == {<<"a">>, <<"b">>, <<"D83D", "DE00">>, <<"D83D", "DE01">>}

RECURSIVE StringsOf(_)
\* The well-formed strings of at most n code points.
StringsOf(n) ==
  IF n = 0 THEN {<<>>}
  ELSE StringsOf(n - 1)
       \cup {s \o cp : s \in StringsOf(n - 1), cp \in CodePoints}

HighSurrogate(u) == u = "D83D"

\* Y.Text keeps its value in items that are split at the offset of an edit;
\* a split between the two units of a surrogate pair replaces both with
\* U+FFFD.
SplitAt(str, offset) ==
  IF offset >= 1 /\ offset < Len(str) /\ HighSurrogate(str[offset])
  THEN [i \in 1..Len(str) |->
          IF i = offset \/ i = offset + 1 THEN "FFFD" ELSE str[i]]
  ELSE str

\* yText.delete(index, length)
TextDelete(str, index, length) ==
  IF length = 0 THEN str
  ELSE LET cut == SplitAt(SplitAt(str, index), index + length)
       IN SubSeq(cut, 1, index) \o SubSeq(cut, index + length + 1, Len(cut))

\* yText.insert(index, text)
TextInsert(str, index, text) ==
  LET cut == SplitAt(str, index)
  IN SubSeq(cut, 1, index) \o text \o SubSeq(cut, index + 1, Len(cut))

RECURSIVE CommonPrefix(_, _, _)
\* The first while loop: the value of start when it ends (0-based).
CommonPrefix(prevValue, nextValue, start) ==
  IF start < Len(prevValue) /\ start < Len(nextValue)
     /\ prevValue[start + 1] = nextValue[start + 1]
  THEN CommonPrefix(prevValue, nextValue, start + 1)
  ELSE start

RECURSIVE CommonSuffix(_, _, _, _, _)
\* The second while loop: <<endPrev, endNext>> when it ends.
CommonSuffix(prevValue, nextValue, start, endPrev, endNext) ==
  IF endPrev > start /\ endNext > start
     /\ prevValue[endPrev] = nextValue[endNext]
  THEN CommonSuffix(prevValue, nextValue, start, endPrev - 1, endNext - 1)
  ELSE <<endPrev, endNext>>

\* applyTextDiff on a text whose value is prevValue: the value it leaves and
\* the numbers of delete and insert calls that changed something.
applyTextDiff(prevValue, nextValue) ==
  IF prevValue = nextValue
  THEN [value |-> prevValue, deletes |-> 0, inserts |-> 0]
  ELSE LET start == CommonPrefix(prevValue, nextValue, 0)
           ends == CommonSuffix(prevValue, nextValue, start, Len(prevValue),
                                Len(nextValue))
           deleted == TextDelete(prevValue, start, ends[1] - start)
           insertText == SubSeq(nextValue, start + 1, ends[2])
       IN [value |-> IF insertText # <<>>
                     THEN TextInsert(deleted, start, insertText)
                     ELSE deleted,
           deletes |-> IF ends[1] - start > 0 THEN 1 ELSE 0,
           inserts |-> IF insertText # <<>> THEN 1 ELSE 0]

InitTextDiff ==
  /\ InitNotebook
  /\ \E prevValue \in StringsOf(MaxCodePoints),
        nextValue \in StringsOf(MaxCodePoints) :
       input = [op |-> "diff", prev |-> prevValue, next |-> nextValue]
  /\ output = NoOutput

\* updateCellContent(cellId, content) on the cell whose text is input.prev.
UpdateCellContent ==
  /\ input.op = "diff"
  /\ output = NoOutput
  /\ output' = [op |-> "text"] @@ applyTextDiff(input.prev, input.next)
  /\ UNCHANGED <<updates, nUuid, pc, doc, initializing, persistPending,
                 alarmSet, alarmMoved, writing, stored, written, activations,
                 awareness, socks, attach, cdoc, cconn, c2s, s2c, input>>

NextTextDiff ==
  \/ UpdateCellContent

SpecTextDiff == InitTextDiff /\ [][NextTextDiff]_vars

(***************************************************************************)
(* C16: applyTextDiff leaves the text with value next, with at most one    *)
(* delete and one insert, and with no operation when prev equals next.     *)
(***************************************************************************)
C16_TextDiff ==
  output.op = "text" =>
    /\ output.value = input.next
    /\ output.deletes <= 1
    /\ output.inserts <= 1
    /\ input.prev = input.next => (output.deletes = 0 /\ output.inserts = 0)

(***************************************************************************)
(* SpecAwareness: awareness traffic of sessions that are connected at the  *)
(* same time, and their sockets closing.                                   *)
(***************************************************************************)
MaxClock == 2

\* An awareness frame sent on the socket of c: the coordinator decodes
\* whatever entries the frame holds.  The entry is for the session's own id
\* (the heartbeat), or for an id that is in the registry already, so that an
\* id is always introduced by the socket of its own session; its clock is
\* the next one, the one the registry accepts.
ClientAwareness(c) ==
  /\ cconn[c] = "open"
  /\ c2s[c] = <<>>
  /\ \E id \in Clients :
       /\ id = c \/ awareness[id].live
       /\ awareness[id].clock < MaxClock
       /\ c2s' = [c2s EXCEPT ![c] =
                    Append(@, AwarenessFrame({[id |-> id,
                                               clock |-> awareness[id].clock + 1,
                                               live |-> TRUE]}))]
  /\ UNCHANGED <<updates, nUuid, pc, doc, initializing, persistPending,
                 alarmSet, alarmMoved, writing, stored, written, activations,
                 awareness, socks, attach, cdoc, cconn, s2c>>
  /\ UNCHANGED aux

NextAwareness ==
  \/ Hydrate
  \/ SanitizeOnLoad
  \/ \E c \in Clients : HandleWebSocketInOrder(c)
  \/ \E c \in Clients : OnSync(c)
  \/ \E c \in Clients : OnAwareness(c)
  \/ \E c \in Clients : WebSocketClose(c)
  \/ \E c \in Clients : ClientOpen(c)
  \/ \E c \in Clients : ClientReceive(c)
  \/ \E c \in Clients : ClientAwareness(c)
  \/ \E c \in Clients : ClientClose(c)

SpecAwareness == Init /\ [][NextAwareness]_vars

(***************************************************************************)
(* C17: the close of socket S never removes the awareness entry of a       *)
(* session whose own socket is still open, whatever awareness updates were *)
(* received before.                                                        *)
(***************************************************************************)
C17_CloseKeepsOthers ==
  [][\A c \in Clients :
       WebSocketClose(c) =>
         \A o \in socks \ {c} : awareness[o].live => awareness'[o].live]_vars

(***************************************************************************)
(* C18: document updates are broadcast in the order in which they were     *)
(* applied.  On every socket the update frames wait in a first-in          *)
(* first-out queue; a step takes frames from its head and adds at most one *)
(* at its tail, the frame of the updates that this very step applied, so   *)
(* the frame of an update applied earlier is always ahead of the frame of  *)
(* an update applied later.                                                *)
(***************************************************************************)
IsUpdateFrame(m) == m.t = "update"

UpdateFrames(q) == SelectSeq(q, IsUpdateFrame)

C18_BroadcastOrder ==
  [][\A o \in Clients :
       LET before == UpdateFrames(s2c[o])
           after == UpdateFrames(s2c'[o])
       IN \E k \in 0..Len(before) :
            \/ after = SubSeq(before, k + 1, Len(before))
            \/ /\ doc' # doc
               /\ doc \subseteq doc'
               /\ after = Append(SubSeq(before, k + 1, Len(before)),
                                 SyncUpdate(doc' \ doc))]_vars

\* Two update frames wait on the socket of B: the one applied first is
\* ahead.
C18_Witness ==
  /\ Len(UpdateFrames(s2c["B"])) = 2
  /\ UpdateFrames(s2c["B"])[1].ups # UpdateFrames(s2c["B"])[2].ups
  /\ UpdateFrames(s2c["B"])[1].ups \cup UpdateFrames(s2c["B"])[2].ups
       \subseteq doc

(***************************************************************************)
(* The collaboration effect of useNotebook: one bootstrap per run of the   *)
(* effect.  input holds the collab configuration, output the state of the  *)
(* current bootstrap:                                                      *)
(*   gen          the number of the bootstrap (the effect has run gen      *)
(*                times);                                                  *)
(*   collabStatus the React state;                                         *)
(*   synced       the local flag of the effect;                            *)
(*   timer        syncTimeoutId: "armed", "fired" or "cleared";            *)
(*   pc           the async block: "fetch" (awaiting the remote snapshot), *)
(*                "load" (awaiting the stored notebook), "connect"         *)
(*                (provider.connect() was called), "rejected" (an await    *)
(*                threw and the block ended);                              *)
(*   ws           the provider's socket: "idle", "connecting", "open";     *)
(*   providerSynced  provider.synced;                                      *)
(*   stale        async blocks of disposed bootstraps that still await;    *)
(*   ensured      ensureNotebookInitialized(doc) of line 515 has run;      *)
(*   connects     the number of calls of provider.connect().               *)
(***************************************************************************)
MaxBootstraps == 2

\* collab.serverUrl as getCollabConfig leaves it: http(s) is rewritten to
\* ws(s), anything else is kept as typed.
ServerUrls == {"wss://h/ws", "ws://h/ws", "h/ws"}

wsToHttpUrl(value) ==
  IF value = "wss://h/ws" THEN "https://h/ws"
  ELSE IF value = "ws://h/ws" THEN "http://h/ws"
  ELSE value

\* new URL(...) in buildCollabHttpEndpoint throws on a string that is not
\* an absolute URL.
UrlParses(value) == value \in {"https://h/ws", "http://h/ws"}

\* Faulty option: the provider connects from its constructor.
ProviderConnectsAtOnce == TRUE

\* The option `connect` given to the WebsocketProvider.
ProviderConnect == FALSE

\* The effect body up to the start of the async block.
StartBootstrap(gen, stale) ==
  [op |-> "boot", gen |-> gen, collabStatus |-> "connecting",
   synced |-> FALSE, timer |-> "armed", pc |-> "fetch",
   ws |-> IF ProviderConnect THEN "connecting" ELSE "idle",
   providerSynced |-> FALSE, stale |-> stale, ensured |-> FALSE,
   connects |-> 0]

InitBootstrap ==
  /\ InitNotebook
  /\ \E serverUrl \in ServerUrls :
       input = [op |-> "collab", serverUrl |-> serverUrl]
  /\ output = StartBootstrap(1, 0)

BootstrapFrame ==
  UNCHANGED <<updates, nUuid, pc, doc, initializing, persistPending,
              alarmSet, alarmMoved, writing, stored, written, activations,
              awareness, socks, attach, cdoc, cconn, c2s, s2c, input>>

\* onSync(isSynced): the state of the bootstrap after the handler.
onSync(b, isSynced) ==
  IF ~isSynced THEN b
  ELSE [b EXCEPT !.synced = TRUE,
                 !.collabStatus = "connected",
                 !.timer = IF @ = "armed" THEN "cleared" ELSE @]

\* The sync watchdog fires.
SyncTimeout ==
  /\ output.op = "boot"
  /\ output.timer = "armed"
  /\ output' = [output EXCEPT
                  !.timer = "fired",
                  !.collabStatus = IF output.synced THEN @ ELSE "fallback"]
  /\ BootstrapFrame

\* await tryApplyRemoteCollabSnapshot resolves: appliedRemote, and whether
\* the document then looks like the default notebook.
SnapshotFetched ==
  /\ output.op = "boot"
  /\ output.pc = "fetch"
  /\ UrlParses(wsToHttpUrl(input.serverUrl))
  /\ \E appliedRemote \in BOOLEAN, looksDefault \in BOOLEAN :
       output' =
         IF ~appliedRemote
         THEN [output EXCEPT !.collabStatus = "fallback", !.pc = "load"]
         ELSE IF looksDefault
         THEN [output EXCEPT !.pc = "load"]
         ELSE [output EXCEPT !.pc = "connect",
                             !.ensured = TRUE,
                             !.connects = @ + 1,
                             !.ws = IF @ = "idle" THEN "connecting" ELSE @]
  /\ BootstrapFrame

\* buildCollabHttpEndpoint throws: the promise of
\* tryApplyRemoteCollabSnapshot is rejected and the async block ends.
SnapshotThrows ==
  /\ output.op = "boot"
  /\ output.pc = "fetch"
  /\ ~UrlParses(wsToHttpUrl(input.serverUrl))
  /\ output' = [output EXCEPT !.pc = "rejected"]
  /\ BootstrapFrame

\* await loadNotebookSnapshotIntoDoc resolves; ensureNotebookInitialized,
\* then provider.connect().
StorageLoaded ==
  /\ output.op = "boot"
  /\ output.pc = "load"
  /\ output' = [output EXCEPT !.pc = "connect",
                              !.ensured = TRUE,
                              !.connects = @ + 1,
                              !.ws = IF @ = "idle" THEN "connecting" ELSE @]
  /\ BootstrapFrame

\* The provider's socket opens (sync step 1 is sent).
ProviderOpen ==
  /\ output.op = "boot"
  /\ output.ws = "connecting"
  /\ output' = [output EXCEPT !.ws = "open"]
  /\ BootstrapFrame

\* Sync step 2 arrives: provider.synced becomes true and "sync" is emitted
\* with isSynced = true.
ProviderSynced ==
  /\ output.op = "boot"
  /\ output.ws = "open"
  /\ ~output.providerSynced
  /\ output' = onSync([output EXCEPT !.providerSynced = TRUE], TRUE)
  /\ BootstrapFrame

\* The provider's socket closes: provider.synced becomes false ("sync" is
\* emitted with isSynced = false when it was true) and the provider retries.
ProviderClosed ==
  /\ output.op = "boot"
  /\ output.ws \in {"connecting", "open"}
  /\ output' =
       IF output.providerSynced
       THEN onSync([output EXCEPT !.ws = "connecting",
                                  !.providerSynced = FALSE], FALSE)
       ELSE [output EXCEPT !.ws = "connecting"]
  /\ BootstrapFrame

\* The effect is cleaned up and runs again (another notebook id, or the
\* collab configuration changed): disposed = true, the timer is cleared, the
\* provider is destroyed, and a new bootstrap starts.
Rebootstrap ==
  /\ output.op = "boot"
  /\ output.gen < MaxBootstraps
  /\ output' = StartBootstrap(output.gen + 1,
                 output.stale + IF output.pc \in {"fetch", "load"}
                                THEN 1 ELSE 0)
  /\ BootstrapFrame

\* An await of a disposed bootstrap resolves: `if (disposed) return`.
StaleResume ==
  /\ output.op = "boot"
  /\ output.stale > 0
  /\ output' = [output EXCEPT !.stale = @ - 1]
  /\ BootstrapFrame

NextBootstrap ==
  \/ SyncTimeout
  \/ SnapshotFetched
  \/ SnapshotThrows
  \/ StorageLoaded
  \/ ProviderOpen
  \/ ProviderSynced
  \/ ProviderClosed
  \/ Rebootstrap
  \/ StaleResume

SpecBootstrap == InitBootstrap /\ [][NextBootstrap]_vars

\* The timer fires, the fetch (which is aborted after connectTimeoutMs) and
\* the storage read settle, and a socket that is being opened opens or
\* closes.
FairBootstrap ==
  /\ SpecBootstrap
  /\ WF_vars(SyncTimeout)
  /\ WF_vars(SnapshotFetched)
  /\ WF_vars(SnapshotThrows)
  /\ WF_vars(StorageLoaded)

(***************************************************************************)
(* C19: within one bootstrap collabStatus, once connected, stays           *)
(* connected: no step of the same bootstrap (watchdog, snapshot fetch      *)
(* outcome, sync event with isSynced = false) changes it.                  *)
(***************************************************************************)
C19_ConnectedStays ==
  [][(/\ output.op = "boot"
      /\ output.collabStatus = "connected"
      /\ output'.gen = output.gen)
       => output'.collabStatus = "connected"]_vars

\* The watchdog fired before the first sync, the session then synced, and
\* the socket has closed since (a sync event with isSynced = false).
C19_Witness ==
  /\ output.op = "boot"
  /\ output.collabStatus = "connected"
  /\ output.timer = "fired"
  /\ output.synced
  /\ ~output.providerSynced

(***************************************************************************)
(* C20: fallback is not terminal.  Whenever collabStatus is fallback in a  *)
(* bootstrap, that bootstrap reaches provider.connect() (unless a new      *)
(* bootstrap begins first), and a sync event with isSynced = true sets     *)
(* collabStatus to connected.                                              *)
(***************************************************************************)
C20_FallbackNotTerminal ==
  /\ \A g \in 1..MaxBootstraps :
       (output.op = "boot" /\ output.gen = g
          /\ output.collabStatus = "fallback")
         ~> (output.pc = "connect" \/ output.gen # g)
  /\ [][ProviderSynced => output'.collabStatus = "connected"]_vars

(***************************************************************************)
(* C21: the provider is created disconnected and connect() is called       *)
(* exactly once in a bootstrap, after the remote snapshot attempt and the  *)
(* storage seeding have finished and the default has been ensured; before  *)
(* that the socket is idle and no sync event has reached the session.      *)
(***************************************************************************)
C21_ConnectAfterBootstrap ==
  /\ [](output.op = "boot" =>
          /\ output.connects <= 1
          /\ output.connects = 1 <=> output.pc = "connect"
          /\ output.pc = "connect" => output.ensured
          /\ output.connects = 0 =>
               /\ output.ws = "idle"
               /\ ~output.providerSynced
               /\ ~output.synced)
  /\ \A g \in 1..MaxBootstraps :
       (output.op = "boot" /\ output.gen = g)
         ~> (output.connects = 1 \/ output.gen # g)

(***************************************************************************)
(* The client's document bootstrap (useNotebook with collaboration): the   *)
(* remote snapshot, the stored notebook, the default template.             *)
(***************************************************************************)
\* What getNotebookAsync(notebookId) resolves to: null, or a SavedNotebook
\* (metadata.title, cells with id, type, content).
NoSaved == [has |-> FALSE, title |-> "", cells |-> <<>>]

SavedCell(id, type, content) == [id |-> id, type |-> type, content |-> content]

SavedNotebooks ==
  { NoSaved,
    [has |-> TRUE, title |-> "Stored",
     cells |-> <<SavedCell("cell-md", "markdown", "# Seed"),
                 SavedCell("cell-code", "code", "print(1)")>>],
    [has |-> TRUE, title |-> "Stored",
     cells |-> <<SavedCell("dup", "code", "print(1)"),
                 SavedCell("dup", "code", "print(2)")>>],
    [has |-> TRUE, title |-> "", cells |-> <<>>] }

RECURSIVE Concat(_)
\* The string made of the segments of a text.
Concat(segments) ==
  IF segments = <<>> THEN ""
  ELSE Head(segments) \o Concat(Tail(segments))

\* ensureNotebookInitialized(doc) on document d: the changes it makes as
\* update n, drawing ids from the k-th generated id on.
ensureNotebookInitialized(tbl, d, n, k) ==
  LET title == IF DocTitle(tbl, d) = <<>>
               THEN <<TitleCh("Untitled Notebook", {})>> ELSE <<>>
      cells == IF Len(DocCells(tbl, d)) > 0 THEN <<>>
               ELSE <<InsCell(n, Len(title) + 1, Str(generateId(k + 1)),
                              Str("markdown"), YText(DEFAULT_NOTEBOOK_MD)),
                      InsCell(n, Len(title) + 2, Str(generateId(k + 2)),
                              Str("code"), YText(DEFAULT_NOTEBOOK_CODE))>>
  IN [ch |-> title \o cells, k |-> IF cells = <<>> THEN k ELSE k + 2]

\* md.startsWith("# New Notebook") / code.startsWith("# Write Python code
\* here") on the cell texts of the model (the texts are already trimmed).
MdLooksDefault(md) == md = DEFAULT_NOTEBOOK_MD
CodeLooksDefault(code) == code = DEFAULT_NOTEBOOK_CODE

\* looksLikeDefaultNotebookDoc(doc)
looksLikeDefaultNotebookDoc(tbl, d) ==
  LET cells == DocCells(tbl, d)
  IN /\ Concat(DocTitle(tbl, d)) = DEFAULT_NOTEBOOK_TITLE
     /\ Len(cells) = 2
     /\ cells[1].type = Str("markdown")
     /\ cells[2].type = Str("code")
     /\ cells[1].content.t = "text"
     /\ cells[2].content.t = "text"
     /\ MdLooksDefault(cells[1].content.v)
     /\ CodeLooksDefault(cells[2].content.v)

\* Faulty id choice: `if (usedIds.has(id)) id = generateId()` left out.
SavedCellIdKept(cellId, usedIds, k) ==
  IF cellId # "" THEN [id |-> cellId, k |-> k]
  ELSE [id |-> generateId(k + 1), k |-> k + 1]

\* let id = cell.id || generateId(); if (usedIds.has(id)) id = generateId():
\* the id of the Y.Map and the number of ids drawn.
SavedCellId(cellId, usedIds, k) ==
  LET first == IF cellId # "" THEN cellId ELSE generateId(k + 1)
      k1 == IF cellId # "" THEN k ELSE k + 1
  IN IF first \in usedIds
     THEN [id |-> generateId(k1 + 1), k |-> k1 + 1]
     ELSE [id |-> first, k |-> k1]

RECURSIVE SavedCellsFrom(_, _, _, _, _, _)
\* saved.cells.map(...) from cell i on: the Y.Maps pushed (as changes of
\* update n, the first at position at) and the number of ids drawn.
SavedCellsFrom(cells, i, usedIds, n, at, k) ==
  IF i > Len(cells) THEN [ch |-> <<>>, k |-> k]
  ELSE LET cell == cells[i]
           r == SavedCellId(cell.id, usedIds, k)
           rest == SavedCellsFrom(cells, i + 1, usedIds \cup {r.id}, n,
                                  at + 1, r.k)
       IN [ch |-> <<InsCell(n, at, Str(r.id), Str(cell.type),
                            YText(cell.content))>> \o rest.ch,
           k |-> rest.k]

\* loadNotebookSnapshotIntoDoc(doc, notebookId) on document d when storage
\* holds `saved`: the transactions it makes (each one update, numbered from
\* n on), the ids drawn, and its result.
loadNotebookSnapshotIntoDoc(tbl, d, by, saved, n, k) ==
  IF ~saved.has
  THEN LET e == ensureNotebookInitialized(tbl, d, n, k)
       IN [ups |-> IF e.ch = <<>> THEN <<>> ELSE <<Update(by, e.ch)>>,
           k |-> e.k, seeded |-> FALSE]
  ELSE LET old == DocCells(tbl, d)
           title == <<TitleCh(IF saved.title # "" THEN saved.title
                              ELSE "Untitled Notebook",
                              TitleSegments(tbl, d))>>
           dels == [j \in 1..Len(old) |-> DelCell(old[j].cell)]
           ins == SavedCellsFrom(saved.cells, 1, {}, n, Len(old) + 2, k)
           first == Update(by, title \o dels \o ins.ch)
           e == ensureNotebookInitialized(Append(tbl, first), d \cup {n},
                                          n + 1, ins.k)
       IN [ups |-> IF e.ch = <<>> THEN <<first>>
                   ELSE <<first, Update(by, e.ch)>>,
           k |-> e.k, seeded |-> TRUE]

(***************************************************************************)
(* SpecSession: sessions that bootstrap against one coordinator.  input    *)
(* holds the stored notebook, output the state of each session's effect:   *)
(*   stage[c]   "fetch" (awaiting the remote snapshot), "load" (awaiting   *)
(*              the stored notebook), "ensure" (about to run line 515),    *)
(*              "connect" (provider.connect() was called);                 *)
(*   collabStatus[c], seededFromStorage[c]  as in the code;                *)
(*   seeding[c] the async block started by onSync awaits the stored        *)
(*              notebook.                                                  *)
(***************************************************************************)
InitSession ==
  /\ InitNotebook
  /\ \E saved \in SavedNotebooks : input = [op |-> "storage", saved |-> saved]
  /\ output = [op |-> "sessions",
               stage |-> [c \in Clients |-> "fetch"],
               collabStatus |-> [c \in Clients |-> "connecting"],
               seededFromStorage |-> [c \in Clients |-> FALSE],
               seeding |-> [c \in Clients |-> FALSE]]

\* The numbers of the updates ups get when appended to the table.
NewNumbers(ups) == (Len(updates) + 1)..(Len(updates) + Len(ups))

\* The provider's update handler: one update frame per local update when
\* the socket is open.
SendLocal(q, c, ups) ==
  IF cconn[c] = "open"
  THEN [q EXCEPT ![c] =
          @ \o [j \in 1..Len(ups) |-> SyncUpdate({Len(updates) + j})]]
  ELSE q

\* await tryApplyRemoteCollabSnapshot and the branch taken on its result,
\* when the request is answered with the coordinator's snapshot ("body"),
\* with an empty body ("empty"), or fails (network error, non-2xx, timeout:
\* "error").
SnapshotOutcomes == {"body", "empty", "error"}

SnapshotSettled(c, outcome) ==
  /\ output.op = "sessions"
  /\ output.stage[c] = "fetch"
  /\ outcome = "body" => Ready
  /\ LET appliedRemote == outcome # "error"
         d == IF outcome = "body" /\ Len(SnapshotResponse) > 0
              THEN applyUpdate(cdoc[c], SnapshotResponse)
              ELSE cdoc[c]
     IN /\ cdoc' = [cdoc EXCEPT ![c] = d]
        /\ output' =
             [output EXCEPT
                !.collabStatus[c] = IF appliedRemote THEN @
                                    ELSE "fallback",
                !.stage[c] =
                   IF ~appliedRemote
                      \/ looksLikeDefaultNotebookDoc(updates, d)
                   THEN "load" ELSE "ensure"]
  /\ UNCHANGED <<updates, nUuid, pc, doc, initializing, persistPending,
                 alarmSet, alarmMoved, writing, stored, written, activations,
                 awareness, socks, attach, cconn, c2s, s2c, input>>

RemoteSnapshot(c) ==
  /\ output.stage[c] = "fetch"
  /\ \E outcome \in SnapshotOutcomes : SnapshotSettled(c, outcome)

\* seededFromStorage = await loadNotebookSnapshotIntoDoc(...) of the
\* bootstrap (line 507 or 511).
StorageLoad(c) ==
  /\ output.op = "sessions"
  /\ output.stage[c] = "load"
  /\ LET r == loadNotebookSnapshotIntoDoc(updates, cdoc[c], c, input.saved,
                                          Len(updates) + 1, nUuid)
     IN /\ updates' = updates \o r.ups
        /\ nUuid' = r.k
        /\ cdoc' = [cdoc EXCEPT ![c] = @ \cup NewNumbers(r.ups)]
        /\ output' = [output EXCEPT !.seededFromStorage[c] = r.seeded,
                                    !.stage[c] = "ensure"]
  /\ UNCHANGED <<pc, doc, initializing, persistPending, alarmSet, alarmMoved,
                 writing, stored, written, activations, awareness, socks,
                 attach, cconn, c2s, s2c, input>>

\* ensureNotebookInitialized(doc); ...; provider.connect()
EnsureAndConnect(c) ==
  /\ output.op = "sessions"
  /\ output.stage[c] = "ensure"
  /\ LET e == ensureNotebookInitialized(updates, cdoc[c], Len(updates) + 1,
                                        nUuid)
         ups == IF e.ch = <<>> THEN <<>> ELSE <<Update(c, e.ch)>>
     IN /\ updates' = updates \o ups
        /\ nUuid' = e.k
        /\ cdoc' = [cdoc EXCEPT ![c] = @ \cup NewNumbers(ups)]
  /\ output' = [output EXCEPT !.stage[c] = "connect"]
  /\ UNCHANGED <<pc, doc, initializing, persistPending, alarmSet, alarmMoved,
                 writing, stored, written, activations, awareness, socks,
                 attach, cconn, c2s, s2c, input>>

\* The provider's socket reaches the coordinator once connect() was called.
SessionUpgrade(c) ==
  /\ output.op = "sessions"
  /\ output.stage[c] = "connect"
  /\ HandleWebSocketInOrder(c)

\* websocket.onmessage of the provider; sync step 2 makes provider.synced
\* true and emits "sync", whose handler onSync sets connected and starts the
\* seeding from storage when the document still looks like the default.
SessionReceive(c) ==
  /\ output.op = "sessions"
  /\ cconn[c] = "open"
  /\ s2c[c] # <<>>
  /\ LET m == Head(s2c[c])
         d == IF m.t \in {"step2", "update"} THEN cdoc[c] \cup m.ups
              ELSE cdoc[c]
         firstSync == m.t = "step2" /\ output.collabStatus[c] # "connected"
     IN /\ cdoc' = [cdoc EXCEPT ![c] = d]
        /\ c2s' = IF m.t = "step1"
                  THEN [c2s EXCEPT ![c] = Append(@, SyncStep2(cdoc[c], m.ups))]
                  ELSE c2s
        /\ output' =
             IF firstSync
             THEN [output EXCEPT
                     !.collabStatus[c] = "connected",
                     !.seeding[c] =
                        ~output.seededFromStorage[c]
                        /\ looksLikeDefaultNotebookDoc(updates, d)]
             ELSE output
  /\ s2c' = [s2c EXCEPT ![c] = Tail(@)]
  /\ UNCHANGED <<updates, nUuid, pc, doc, initializing, persistPending,
                 alarmSet, alarmMoved, writing, stored, written, activations,
                 awareness, socks, attach, cconn, input>>

\* The async block of onSync: seeded = await loadNotebookSnapshotIntoDoc;
\* seededFromStorage = seeded.
SeedAfterSync(c) ==
  /\ output.op = "sessions"
  /\ output.seeding[c]
  /\ LET r == loadNotebookSnapshotIntoDoc(updates, cdoc[c], c, input.saved,
                                          Len(updates) + 1, nUuid)
     IN /\ updates' = updates \o r.ups
        /\ nUuid' = r.k
        /\ cdoc' = [cdoc EXCEPT ![c] = @ \cup NewNumbers(r.ups)]
        /\ c2s' = SendLocal(c2s, c, r.ups)
        /\ output' = [output EXCEPT !.seededFromStorage[c] = r.seeded,
                                    !.seeding[c] = FALSE]
  /\ UNCHANGED <<pc, doc, initializing, persistPending, alarmSet, alarmMoved,
                 writing, stored, written, activations, awareness, socks,
                 attach, cconn, s2c, input>>

MaxDeletes == 1

\* Number of deleteCell calls that deleted a cell.
Deletes ==
  Cardinality({n \in 1..Len(updates) :
                 Len(updates[n].ch) = 1 /\ updates[n].ch[1].op = "del"})

\* deleteCell(cellId) on the cells of the document: the index it deletes
\* (from 1), or 0 when it returns early.
deleteCell(cells, cellId) ==
  IF Len(cells) <= 1 THEN 0
  ELSE IF \E i \in 1..Len(cells) : cells[i].id = cellId
  THEN CHOOSE i \in 1..Len(cells) :
         /\ cells[i].id = cellId
         /\ \A j \in 1..(i - 1) : cells[j].id # cellId
  ELSE 0

\* The user deletes a cell of the notebook that the bootstrap has produced.
SessionDelete(c) ==
  /\ output.op = "sessions"
  /\ output.stage[c] = "connect"
  /\ cconn[c] # "closed"
  /\ Deletes < MaxDeletes
  /\ LET cells == DocCells(updates, cdoc[c])
     IN \E i \in 1..Len(cells) :
          LET index == deleteCell(cells, cells[i].id)
              ups == <<Update(c, <<DelCell(cells[index].cell)>>)>>
          IN /\ index # 0
             /\ updates' = updates \o ups
             /\ cdoc' = [cdoc EXCEPT ![c] = @ \cup NewNumbers(ups)]
             /\ c2s' = SendLocal(c2s, c, ups)
  /\ UNCHANGED <<nUuid, pc, doc, initializing, persistPending, alarmSet,
                 alarmMoved, writing, stored, written, activations,
                 awareness, socks, attach, cconn, s2c>>
  /\ UNCHANGED aux

NextSession ==
  \/ Hydrate
  \/ SanitizeOnLoad
  \/ \E c \in Clients : RemoteSnapshot(c)
  \/ \E c \in Clients : StorageLoad(c)
  \/ \E c \in Clients : EnsureAndConnect(c)
  \/ \E c \in Clients : SessionUpgrade(c)
  \/ \E c \in Clients : ClientOpen(c)
  \/ \E c \in Clients : OnSync(c)
  \/ \E c \in Clients : OnAwareness(c)
  \/ \E c \in Clients : SessionReceive(c)
  \/ \E c \in Clients : SeedAfterSync(c)

SpecSession == InitSession /\ [][NextSession]_vars

(***************************************************************************)
(* SpecStored: one session bootstraps, syncs, and its user deletes cells.  *)
(***************************************************************************)
Alone == {"A"}

NextStored ==
  \/ Hydrate
  \/ SanitizeOnLoad
  \/ \E c \in Alone : RemoteSnapshot(c)
  \/ \E c \in Alone : StorageLoad(c)
  \/ \E c \in Alone : EnsureAndConnect(c)
  \/ \E c \in Alone : SessionUpgrade(c)
  \/ \E c \in Alone : ClientOpen(c)
  \/ \E c \in Alone : OnSync(c)
  \/ \E c \in Alone : OnAwareness(c)
  \/ \E c \in Alone : SessionReceive(c)
  \/ \E c \in Alone : SeedAfterSync(c)
  \/ \E c \in Alone : SessionDelete(c)

SpecStored == InitSession /\ [][NextStored]_vars

(***************************************************************************)
(* C22: a session that opens a notebook with no stored copy and has        *)
(* completed its first sync holds the default template exactly once: the   *)
(* title is "Untitled Notebook", one cell holds the welcome markdown and   *)
(* one the code placeholder.                                               *)
(***************************************************************************)
CellsWith(cells, content) ==
  {i \in 1..Len(cells) : cells[i].content = YText(content)}

DefaultExactlyOnce(tbl, d) ==
  /\ Concat(DocTitle(tbl, d)) = "Untitled Notebook"
  /\ Cardinality(CellsWith(DocCells(tbl, d), DEFAULT_NOTEBOOK_MD)) = 1
  /\ Cardinality(CellsWith(DocCells(tbl, d), DEFAULT_NOTEBOOK_CODE)) = 1

C22_DefaultOnce ==
  \A c \in Clients :
    (/\ output.op = "sessions"
     /\ ~input.saved.has
     /\ output.collabStatus[c] = "connected")
      => DefaultExactlyOnce(updates, cdoc[c])

(***************************************************************************)
(* C23: promotion of a stored notebook.  The coordinator starts from the   *)
(* default template and the session has a stored notebook with cells; once *)
(* the session has bootstrapped, synced, finished any seeding and had its  *)
(* frames processed (no other session having started), the session's and   *)
(* the coordinator's documents have the stored title and exactly the       *)
(* stored cells in order, and nothing of the default template.             *)
(***************************************************************************)
ShowsSaved(tbl, d, saved) ==
  LET cells == DocCells(tbl, d)
  IN /\ Concat(DocTitle(tbl, d)) = saved.title
     /\ Len(cells) = Len(saved.cells)
     /\ \A i \in 1..Len(cells) :
          /\ cells[i].type = Str(saved.cells[i].type)
          /\ cells[i].content = YText(saved.cells[i].content)

Promoted(c) ==
  /\ output.op = "sessions"
  /\ input.saved.has
  /\ input.saved.cells # <<>>
  /\ output.collabStatus[c] = "connected"
  /\ ~output.seeding[c]
  /\ c2s[c] = <<>>
  /\ s2c[c] = <<>>
  /\ \A o \in Clients \ {c} : output.stage[o] = "fetch"

C23_Promotion ==
  \A c \in Clients :
    Promoted(c) => /\ ShowsSaved(updates, cdoc[c], input.saved)
                   /\ ShowsSaved(updates, doc, input.saved)

(***************************************************************************)
(* C24: a stored notebook whose cells have equal ids is loaded with        *)
(* pairwise distinct cell ids, the first cell of each group keeping its    *)
(* id; a deleteCell afterwards removes exactly one cell, and when it is    *)
(* not the first one the first cell stays in place with its id.            *)
(***************************************************************************)
LoadsDistinct(saved, cells) ==
  /\ Len(cells) = Len(saved.cells)
  /\ \A i, j \in 1..Len(cells) : i # j => cells[i].id # cells[j].id
  /\ \A i \in 1..Len(cells) :
       (/\ saved.cells[i].id # ""
        /\ \A j \in 1..(i - 1) : saved.cells[j].id # saved.cells[i].id)
         => cells[i].id = Str(saved.cells[i].id)

Without(cells, index) ==
  SubSeq(cells, 1, index - 1) \o SubSeq(cells, index + 1, Len(cells))

C24_DuplicateIds ==
  [][\A c \in Clients :
       /\ ((StorageLoad(c) \/ SeedAfterSync(c))
             /\ input.saved.has /\ input.saved.cells # <<>>)
            => LoadsDistinct(input.saved, DocCells(updates', cdoc'[c]))
       /\ SessionDelete(c)
            => \E index \in 1..Len(DocCells(updates, cdoc[c])) :
                 DocCells(updates', cdoc'[c])
                   = Without(DocCells(updates, cdoc[c]), index)]_vars

\* The stored cells both had the id "dup"; the second one, re-minted, was
\* deleted and the first is the only cell left, with the id "dup".
C24_Witness ==
  /\ output.op = "sessions"
  /\ \E i, j \in 1..Len(input.saved.cells) :
       i # j /\ input.saved.cells[i].id = input.saved.cells[j].id
  /\ Deletes = 1
  /\ \E c \in Clients :
       LET cells == DocCells(updates, cdoc[c])
       IN /\ Len(cells) = 1
          /\ cells[1].id = Str(input.saved.cells[1].id)
          /\ cells[1].content = YText(input.saved.cells[1].content)

(***************************************************************************)
(* SpecFaults: the coordinator and one session, with the failures of the   *)
(* environment: the read of the stored snapshot fails at cold start, the   *)
(* put of the alarm handler fails, a frame cannot be decoded.  output      *)
(* records the failures that have happened.                                *)
(***************************************************************************)
InitFaults ==
  /\ InitNotebook
  /\ input = NoInput
  /\ output = [op |-> "faults", readFailed |-> FALSE, writeFailed |-> FALSE]

\* storage.get rejects, or Y.applyUpdate throws on the stored bytes: the
\* callback of blockConcurrencyWhile rejects.  The runtime discards the
\* instance, and the constructor runs again on the next request, which
\* leaves the coordinator where it was: not hydrated, initializing.
HydrateFails ==
  /\ pc = "hydrate"
  /\ stored.has
  /\ output.op = "faults"
  /\ output' = [output EXCEPT !.readFailed = TRUE]
  /\ UNCHANGED <<updates, nUuid, pc, doc, initializing, persistPending,
                 alarmSet, alarmMoved, writing, stored, written, activations,
                 awareness, socks, attach, cdoc, cconn, c2s, s2c, input>>

\* await storage.put rejects: persistSnapshot and alarm() reject, nothing is
\* stored.  The runtime may run the alarm handler again (retry).
WriteFails ==
  /\ writing.has
  /\ output.op = "faults"
  /\ writing' = [has |-> FALSE, bytes |-> <<>>, of |-> {}]
  /\ \E retry \in BOOLEAN : alarmSet' = (alarmSet \/ retry)
  /\ output' = [output EXCEPT !.writeFailed = TRUE]
  /\ UNCHANGED <<updates, nUuid, pc, doc, initializing, persistPending,
                 alarmMoved, stored, written, activations, awareness, socks,
                 attach, cdoc, cconn, c2s, s2c, input>>

\* A frame that cannot be decoded.  aw = {}: the message type is unknown or
\* the payload of a sync frame is cut short.  aw # {}: an awareness frame
\* that announces more entries than it holds; aw are the entries it holds.
Malformed(entries) == Frame("malformed", {}, entries)

\* onMessage on a frame that cannot be decoded.  Nothing catches what the
\* decoder throws: the promise of onMessage is rejected and discarded.
\* applyAwarenessUpdate has written the entries it decoded before the throw
\* into the registry, and has not emitted "update".
OnMalformed(c) ==
  /\ Ready
  /\ c \in socks
  /\ c2s[c] # <<>>
  /\ Head(c2s[c]).t = "malformed"
  /\ awareness' = applyAwarenessUpdate(awareness, Head(c2s[c]).aw).reg
  /\ c2s' = [c2s EXCEPT ![c] = Tail(@)]
  /\ UNCHANGED <<updates, nUuid, pc, doc, initializing, persistPending,
                 alarmSet, alarmMoved, writing, stored, written, activations,
                 socks, attach, cdoc, cconn, s2c>>
  /\ UNCHANGED aux

\* A session (or anything else that holds the socket) sends such a frame.
ClientMalformed(c) ==
  /\ cconn[c] = "open"
  /\ c2s[c] = <<>>
  /\ \E entries \in {{}, {[id |-> c, clock |-> awareness[c].clock + 1,
                           live |-> TRUE]}} :
       /\ entries # {} => awareness[c].clock < MaxClock
       /\ c2s' = [c2s EXCEPT ![c] = Append(@, Malformed(entries))]
  /\ UNCHANGED <<updates, nUuid, pc, doc, initializing, persistPending,
                 alarmSet, alarmMoved, writing, stored, written, activations,
                 awareness, socks, attach, cdoc, cconn, s2c>>
  /\ UNCHANGED aux

NextFaults ==
  \/ Hydrate
  \/ HydrateFails
  \/ SanitizeOnLoad
  \/ Alarm
  \/ WriteDone
  \/ WriteFails
  \/ Reactivate
  \/ \E c \in Alone : HandleWebSocketAlone(c)
  \/ \E c \in Alone : OnSync(c)
  \/ \E c \in Alone : OnAwareness(c)
  \/ \E c \in Alone : OnMalformed(c)
  \/ \E c \in Alone : WebSocketClose(c)
  \/ \E c \in Alone : ClientEdit(c)
  \/ \E c \in Alone : ClientOpen(c)
  \/ \E c \in Alone : ClientReceive(c)
  \/ \E c \in Alone : ClientMalformed(c)
  \/ \E c \in Alone : ClientClose(c)

SpecFaults == InitFaults /\ [][NextFaults]_vars

(***************************************************************************)
(* C25: a failed read of the stored snapshot at cold start is treated as   *)
(* no snapshot: the step leaves the coordinator hydrated with the default  *)
(* notebook, as the branch without a snapshot does, on its way to ready.   *)
(***************************************************************************)
C25_ReadFailureSeedsDefault ==
  [][HydrateFails =>
       (pc' = "sanitize" /\ IsDefaultNotebook(updates', doc'))]_vars

(***************************************************************************)
(* C26: a failed put of the alarm handler leaves persistPending cleared    *)
(* (it was cleared when the put started, and is true at the failure only   *)
(* if an update has since set it together with an alarm), changes nothing  *)
(* of the document, the sockets or the frames in flight, leaves every      *)
(* waiting frame processable, and an update applied afterwards sets        *)
(* persistPending and an alarm.                                            *)
(***************************************************************************)
FrameWaits(c) == Ready /\ c \in socks /\ c2s[c] # <<>>

C27_MalformedDropped ==
  [][\A c \in Clients :
       OnMalformed(c) =>
         /\ <<doc, awareness, attach, persistPending, alarmSet>>'
              = <<doc, awareness, attach, persistPending, alarmSet>>
         /\ s2c' = s2c
         /\ socks' = socks]_vars


(***************************************************************************)
(* SpecKernel: one session without collaboration and its kernel.  input    *)
(* holds the settings and the stored notebook; output holds the session's  *)
(* kernel state:                                                           *)
(*   health         what GET /health was answered, once it was requested,  *)
(*   stage          "mounted", "loaded" (the stored notebook was loaded),  *)
(*   kernel         "idle-callback", "selecting", "done": the position of  *)
(*                  the kernel init effect,                                *)
(*   kernelStatus, kernelClient, executionCounter  as in the code,         *)
(*   inits          the kinds of client whose init() was called,           *)
(*   runtime        runtimeCellStateRef, by cell id,                       *)
(*   cells          status, output, executionCount of state.cells, by id,  *)
(*   inflight       the executeCell calls awaiting the kernel,             *)
(*   restarting, reconnecting  a restartKernel / reconnectToKernel call    *)
(*                  awaits the kernel.                                     *)
(***************************************************************************)
MaxExecutions == 1
MaxInflight == 2

Session == "A"

\* A JSON value received from the kernel URL.  endpoints and message are
\* given by what the code asks of them: whether endpoints is an object and
\* which of its keys hold strings; whether message is a string and its
\* words.
Payload(ok, endpoints, message, out) ==
  [isRecord |-> TRUE, ok |-> ok, endpoints |-> endpoints,
   message |-> message, output |-> out]
NoEndpoints == [isRecord |-> FALSE, strings |-> {}]
Endpoints(keys) == [isRecord |-> TRUE, strings |-> keys]
NoMessage == [isString |-> FALSE, words |-> <<>>]
Message(words) == [isString |-> TRUE, words |-> words]
NotAnObject ==
  [isRecord |-> FALSE, ok |-> FALSE, endpoints |-> NoEndpoints,
   message |-> NoMessage, output |-> Nil]

\* CellOutput values and values that are not one.
Output(type, content) == [t |-> "object", type |-> type, content |-> content]
VALID_OUTPUT_TYPES == {"text", "image", "table", "latex", "error", "html"}
Outputs ==
  { Output(Str("text"), Str("1")),
    Output(Str("error"), Str("NameError")),
    Output(Str("bogus"), Str("1")),
    Output(Num("1"), Str("1")),
    Output(Str("text"), Nil),
    Nil }

\* The gateway's answer to a path it does not route.
GatewaySelfDescription ==
  Payload(TRUE, Endpoints({"health", "websocket"}),
          Message(<<"This", "is", "the", "collaboration", "Worker">>), Nil)

\* What fetchJson('/health') may give: a rejection (network error, non-2xx
\* status, a body that is not JSON) or a JSON value.
Rejected == [fails |-> TRUE, data |-> NotAnObject]
Unrequested == [fails |-> FALSE, data |-> NotAnObject]
Resolved(data) == [fails |-> FALSE, data |-> data]
HealthResponses ==
  { Rejected,
    Resolved(Payload(TRUE, NoEndpoints, NoMessage, Nil)),
    Resolved(Payload(FALSE, NoEndpoints, Message(<<"starting">>), Nil)),
    Resolved(GatewaySelfDescription),
    Resolved(Payload(TRUE, NoEndpoints,
                     Message(<<"Collaboration", "Worker">>), Nil)) }

\* What fetchJson('/execute') may give.
ExecuteResponses ==
  { Rejected, Resolved(GatewaySelfDescription) }
  \cup { Resolved(Payload(TRUE, NoEndpoints, NoMessage, o)) : o \in Outputs }

\* String.prototype.toLowerCase on the words of a message.
toLowerCase(words) ==
  [i \in DOMAIN words |->
     IF words[i] = "Worker" THEN "worker"
     ELSE IF words[i] = "Collaboration" THEN "collaboration"
     ELSE IF words[i] = "This" THEN "this"
     ELSE words[i]]

\* String.prototype.includes, on words.
includes(words, part) ==
  \E i \in 0..(Len(words) - Len(part)) :
    SubSeq(words, i + 1, i + Len(part)) = part

\* Faulty looksLikeCollabWorker: nothing looks like the gateway.
looksLikeNothing(payload) == FALSE

looksLikeCollabWorker(payload) ==
  /\ payload.isRecord
  /\ \/ /\ payload.endpoints.isRecord
        /\ payload.endpoints.strings \cap {"websocket", "health"} # {}
     \/ /\ payload.message.isString
        /\ includes(toLowerCase(payload.message.words),
                    <<"collaboration", "worker">>)

\* getKernelMode(): the saved (or build-time default) mode, else by whether
\* a backend URL is configured.
getKernelMode(setting, url) ==
  IF setting \in {"backend", "pyodide"} THEN setting
  ELSE IF url # "" THEN "backend" ELSE "pyodide"

\* init() of the backend client: TRUE when it resolves.
BackendInit(url, health) ==
  /\ url # ""
  /\ ~health.fails
  /\ health.data.isRecord /\ health.data.ok
  /\ ~looksLikeCollabWorker(health.data)

\* selectKernelClient(): the kind of the client it resolves to ("null" when
\* it rejects) and the kinds whose init() it called.
selectKernelClient(setting, url, health, pyodideLoads) ==
  IF getKernelMode(setting, url) = "backend"
  THEN IF url = "" THEN [client |-> "null", inits |-> {}]
       ELSE [client |-> IF BackendInit(url, health) THEN "backend"
                        ELSE "null",
             inits |-> {"backend"}]
  ELSE [client |-> IF pyodideLoads THEN "pyodide" ELSE "null",
        inits |-> {"pyodide"}]

IdleRuntime == [status |-> "idle", output |-> Nil, executionCount |-> 0]

\* The ids of the cells of the session's document, in document order.
SessionCells == DocCells(updates, cdoc[Session])
CellIdsOf(cells) == {cells[i].id.v : i \in DOMAIN cells}

\* syncFromDoc: the runtime map after it, for the cells of the document.
syncFromDoc(runtime, cells) ==
  [id \in CellIdsOf(cells) |->
     IF id \in DOMAIN runtime THEN runtime[id] ELSE IdleRuntime]

InitKernel ==
  /\ InitNotebook
  /\ \E setting \in {"backend", "pyodide", "unset"},
        url \in {"", "http://kernel"},
        saved \in {NoSaved,
                   [has |-> TRUE, title |-> "Stored",
                    cells |-> <<SavedCell("one", "code", "print(1)"),
                                SavedCell("two", "code", "print(2)")>>]} :
       input = [op |-> "kernel", setting |-> setting, url |-> url,
                saved |-> saved]
  /\ output = [op |-> "kernel", stage |-> "mounted",
               kernel |-> "idle-callback", health |-> Unrequested,
               kernelStatus |-> "disconnected", kernelClient |-> "null",
               inits |-> {}, executionCounter |-> 0,
               runtime |-> [id \in {} |-> IdleRuntime],
               cells |-> [id \in {} |-> IdleRuntime], inflight |-> <<>>,
               restarting |-> FALSE, reconnecting |-> FALSE]

KernelUnchanged ==
  UNCHANGED <<pc, doc, initializing, persistPending, alarmSet, alarmMoved,
              writing, stored, written, activations, awareness, socks,
              attach, cconn, c2s, s2c, input>>

\* The session's document after the local updates ups, and the view made
\* from it by syncFromDoc.
SessionApply(ups, k, out) ==
  /\ updates' = updates \o ups
  /\ nUuid' = k
  /\ cdoc' = [cdoc EXCEPT ![Session] = @ \cup NewNumbers(ups)]
  /\ LET cells == DocCells(updates \o ups, cdoc[Session] \cup NewNumbers(ups))
         runtime == syncFromDoc(out.runtime, cells)
     IN output' = [out EXCEPT !.runtime = runtime, !.cells = runtime]

\* Without collaboration: loadNotebookSnapshotIntoDoc(doc, notebookId) and
\* the sync of the view that follows it.
LocalLoad ==
  /\ output.op = "kernel"
  /\ output.stage = "mounted"
  /\ LET r == loadNotebookSnapshotIntoDoc(updates, cdoc[Session], Session,
                                          input.saved, Len(updates) + 1,
                                          nUuid)
     IN SessionApply(r.ups, r.k, [output EXCEPT !.stage = "loaded"])
  /\ KernelUnchanged

\* addCell(afterCellId) with the last cell, or with null: a code cell at the
\* end of the cells.
addCell(n) == <<Update(Session, <<InsCell(n, 1, Str(generateId(n)),
                                          Str("code"), YText(""))>>)>>

AddCell ==
  /\ output.op = "kernel"
  /\ output.stage = "loaded"
  /\ Edits < MaxEdits
  /\ SessionApply(addCell(Len(updates) + 1), nUuid, output)
  /\ KernelUnchanged

\* startLoading, from requestIdleCallback or the timer.
StartLoading ==
  /\ output.op = "kernel"
  /\ output.kernel = "idle-callback"
  /\ output' = [output EXCEPT !.kernel = "selecting",
                              !.kernelStatus = "loading"]
  /\ UNCHANGED <<updates, nUuid, cdoc>>
  /\ KernelUnchanged

\* selectKernelClient(...) settles: the .then or the .catch of the effect.
KernelSelected ==
  /\ output.op = "kernel"
  /\ output.kernel = "selecting"
  /\ \E pyodideLoads \in BOOLEAN, health \in HealthResponses :
       LET r == selectKernelClient(input.setting, input.url, health,
                                   pyodideLoads)
       IN output' = [output EXCEPT
                       !.kernel = "done",
                       !.health = IF "backend" \in r.inits THEN health
                                  ELSE @,
                       !.kernelClient = r.client,
                       !.inits = @ \cup r.inits,
                       !.kernelStatus = IF r.client # "null" THEN "idle"
                                        ELSE "disconnected"]
  /\ UNCHANGED <<updates, nUuid, cdoc>>
  /\ KernelUnchanged


\* A settled promise of a kernel call: rejected with an Error of the given
\* message, or resolved to a value.
Thrown(message) == [thrown |-> TRUE, message |-> message, value |-> Nil]
Returned(value) == [thrown |-> FALSE, message |-> "", value |-> value]

\* Faulty assertCellOutput: every value passes.
assertAnyOutput(value) == ""

\* assertCellOutput(value): the message of the error it throws, "" when it
\* returns.
assertCellOutput(value) ==
  IF value.t # "object"
  THEN "Backend returned invalid output (not an object)"
  ELSE IF value.type.t # "str" \/ value.type.v \notin VALID_OUTPUT_TYPES
  THEN "Backend returned invalid output.type"
  ELSE IF value.content.t # "str"
  THEN "Backend returned invalid output.content"
  ELSE ""

\* execute(code) of the backend client, given what fetchJson('/execute')
\* gives.
BackendExecute(response) ==
  IF response.fails THEN Thrown("Backend kernel request failed")
  ELSE IF looksLikeCollabWorker(response.data)
  THEN Thrown("Backend URL points to the collaboration Worker")
  ELSE LET out == response.data.output
       IN IF assertCellOutput(out) # "" THEN Thrown(assertCellOutput(out))
          ELSE Returned(out)

\* execute(code) of the in-browser client: the worker's answer as it is.
PyodideExecute(response) ==
  IF response.fails THEN Thrown("Execution failed")
  ELSE Returned(response.data.output)

PyodideResponses ==
  { Rejected,
    Resolved(Payload(TRUE, NoEndpoints, NoMessage, Nil)),
    Resolved(Payload(TRUE, NoEndpoints, NoMessage,
                     Output(Str("text"), Str("1")))),
    Resolved(Payload(TRUE, NoEndpoints, NoMessage,
                     Output(Str("error"), Str("NameError")))) }

\* The try block of executeCell up to the setState: kernel.execute, the
\* check of its result, kernel.getVariables.
KernelCall(client, response, variablesFail) ==
  LET r == IF client = "backend" THEN BackendExecute(response)
           ELSE PyodideExecute(response)
  IN IF r.thrown THEN r
     ELSE IF r.value.t # "object" \/ r.value.type.t # "str"
     THEN Thrown("Kernel returned invalid output")
     ELSE IF variablesFail THEN Thrown("Backend kernel request failed")
     ELSE r

ErrorOutput(message) == Output(Str("error"), Str(message))

\* prev.cells.map(c => c.id === cellId ? {...c, ...fields} : c)
MapCell(cells, cellId, status, out, count) ==
  [id \in DOMAIN cells |->
     IF id = cellId
     THEN [status |-> status, output |-> out, executionCount |-> count]
     ELSE cells[id]]

\* runtimeCellStateRef.current.set(cellId, {...get(cellId), ...fields})
SetRuntime(runtime, cellId, status, out, count) ==
  [id \in DOMAIN runtime \cup {cellId} |->
     IF id = cellId
     THEN [status |-> status, output |-> out, executionCount |-> count]
     ELSE runtime[id]]

CountOf(map, cellId) ==
  IF cellId \in DOMAIN map THEN map[cellId].executionCount ELSE 0

\* The cell of the document with this id.
CellWithId(cells, cellId) ==
  cells[CHOOSE i \in DOMAIN cells : cells[i].id.v = cellId]

IsLast(cells, cellId) ==
  cells # <<>> /\ cells[Len(cells)].id.v = cellId

\* executeCell(cellId, advance), up to its await of the kernel.
executeCell(cellId, advance) ==
  /\ output.op = "kernel"
  /\ cellId \in DOMAIN output.cells
  /\ LET cell == CellWithId(SessionCells, cellId)
     IN IF cell.type = Str("markdown")
        THEN IF advance /\ IsLast(SessionCells, cellId)
             THEN /\ Edits < MaxEdits
                  /\ SessionApply(addCell(Len(updates) + 1), nUuid, output)
             ELSE UNCHANGED <<updates, nUuid, cdoc, output>>
        ELSE /\ UNCHANGED <<updates, nUuid, cdoc>>
             /\ IF output.kernelClient = "null"
                THEN output' =
                       [output EXCEPT
                          !.cells = MapCell(@, cellId, "error",
                                      ErrorOutput("Python kernel is not loaded"),
                                      CountOf(@, cellId))]
                ELSE /\ Len(output.inflight) < MaxInflight
                     /\ output' =
                          [output EXCEPT
                             !.runtime = SetRuntime(@, cellId, "running", Nil,
                                                    CountOf(@, cellId)),
                             !.cells = MapCell(@, cellId, "running", Nil,
                                               CountOf(@, cellId)),
                             !.kernelStatus = "busy",
                             !.inflight = Append(@, [cellId |-> cellId,
                                                     advance |-> advance])]
  /\ KernelUnchanged

\* executeCell called on a cell of the view.
ExecuteCell(advance) ==
  \E cellId \in DOMAIN output.cells : executeCell(cellId, advance)

StatusOf(out) == IF out.type = Str("error") THEN "error" ELSE "success"

Remove(seq, i) == SubSeq(seq, 1, i - 1) \o SubSeq(seq, i + 1, Len(seq))

\* The rest of executeCell, when the kernel has answered the i-th call in
\* flight with `response` (and getVariables failed or not): the setState of
\* the try block, or the catch block.
Settled(i, response, variablesFail) ==
  /\ output.op = "kernel"
  /\ i \in DOMAIN output.inflight
  /\ LET cellId == output.inflight[i].cellId
         advance == output.inflight[i].advance
         r == KernelCall(output.kernelClient, response, variablesFail)
         rest == [output EXCEPT !.inflight = Remove(@, i),
                                !.kernelStatus = "idle"]
     IN IF r.thrown
        THEN /\ output' =
                  [rest EXCEPT
                     !.runtime = SetRuntime(@, cellId, "error",
                                            ErrorOutput(r.message),
                                            CountOf(@, cellId)),
                     !.cells = MapCell(@, cellId, "error",
                                       ErrorOutput(r.message),
                                       CountOf(@, cellId))]
             /\ UNCHANGED <<updates, nUuid, cdoc>>
        ELSE /\ output.executionCounter < MaxExecutions
             /\ LET nextExecution == output.executionCounter + 1
                    done ==
                      [rest EXCEPT
                         !.executionCounter = nextExecution,
                         !.runtime = SetRuntime(@, cellId, StatusOf(r.value),
                                                r.value, nextExecution),
                         !.cells = MapCell(@, cellId, StatusOf(r.value),
                                           r.value, nextExecution)]
                IN IF advance /\ IsLast(SessionCells, cellId)
                   THEN /\ Edits < MaxEdits
                        /\ SessionApply(addCell(Len(updates) + 1), nUuid,
                                        done)
                   ELSE /\ output' = done
                        /\ UNCHANGED <<updates, nUuid, cdoc>>
  /\ KernelUnchanged

\* What the installed client's request may be answered.
KernelResponses ==
  IF output.kernelClient = "backend" THEN ExecuteResponses
  ELSE PyodideResponses

ExecuteSettled(i) ==
  /\ i \in DOMAIN output.inflight
  /\ \E response \in KernelResponses, variablesFail \in BOOLEAN :
       Settled(i, response, variablesFail)

NextKernel ==
  \/ LocalLoad
  \/ AddCell
  \/ StartLoading
  \/ KernelSelected
  \/ \E advance \in BOOLEAN : ExecuteCell(advance)
  \/ \E i \in 1..MaxInflight : ExecuteSettled(i)

SpecKernel == InitKernel /\ [][NextKernel]_vars


\* GET /health was answered with the gateway's self-description.
GatewayAnswered == output.health = Resolved(GatewaySelfDescription)

WellFormed(out) ==
  /\ out.t = "object"
  /\ out.type.t = "str" /\ out.type.v \in VALID_OUTPUT_TYPES
  /\ out.content.t = "str"

\* The kernel call throws or what it returns is not a CellOutput.
ExecutionFails(response, variablesFail) ==
  \/ response.fails
  \/ variablesFail
  \/ ~WellFormed(response.data.output)

C30_SnapshotOutcome ==
  [][\A c \in Clients, outcome \in SnapshotOutcomes :
       SnapshotSettled(c, outcome) =>
         IF outcome = "body"
         THEN /\ cdoc'[c] = applyUpdate(cdoc[c], SnapshotResponse)
              /\ output'.collabStatus[c] = "connecting"
              /\ ~looksLikeDefaultNotebookDoc(updates, cdoc'[c])
                   => output'.stage[c] = "ensure"
         ELSE /\ output'.collabStatus[c] = "fallback"
              /\ output'.stage[c] = "load"]_vars


(***************************************************************************)
(* SpecKernelOps: the session of SpecKernel with the other kernel          *)
(* requests of the user (restart, interrupt, reconnect) and deleteCell.    *)
(***************************************************************************)
\* forEach over the runtime map.
EachRuntime(map, f(_)) == [id \in DOMAIN map |-> f(map[id])]

\* restartKernel(), up to its await.  Without a client the try block throws
\* before it awaits and the catch sets idle in the same task.
RestartKernel ==
  /\ output.op = "kernel"
  /\ ~output.restarting
  /\ output' =
       [output EXCEPT
          !.kernelStatus = IF output.kernelClient = "null" THEN "idle"
                           ELSE "starting",
          !.restarting = output.kernelClient # "null",
          !.executionCounter = 0,
          !.cells = EachRuntime(@, LAMBDA v : IdleRuntime),
          !.runtime = EachRuntime(@, LAMBDA v : IdleRuntime)]
  /\ UNCHANGED <<updates, nUuid, cdoc>>
  /\ KernelUnchanged

\* kernel.restart() settles: idle whether it resolved or rejected.
RestartSettled ==
  /\ output.op = "kernel"
  /\ output.restarting
  /\ output' = [output EXCEPT !.restarting = FALSE, !.kernelStatus = "idle"]
  /\ UNCHANGED <<updates, nUuid, cdoc>>
  /\ KernelUnchanged

StopRunning(v) == IF v.status = "running" THEN [v EXCEPT !.status = "idle"]
                  ELSE v

\* interruptKernel()
InterruptKernel ==
  /\ output.op = "kernel"
  /\ output' = [output EXCEPT
                  !.kernelStatus = "idle",
                  !.cells = EachRuntime(@, StopRunning),
                  !.runtime = EachRuntime(@, StopRunning)]
  /\ UNCHANGED <<updates, nUuid, cdoc>>
  /\ KernelUnchanged

\* reconnectToKernel(), up to its await.
ReconnectToKernel ==
  /\ output.op = "kernel"
  /\ ~output.reconnecting
  /\ output' = [output EXCEPT !.kernelClient = "null",
                              !.kernelStatus = "loading",
                              !.reconnecting = TRUE]
  /\ UNCHANGED <<updates, nUuid, cdoc>>
  /\ KernelUnchanged

\* reconnectKernel(...) settles.
ReconnectSettled ==
  /\ output.op = "kernel"
  /\ output.reconnecting
  /\ \E pyodideLoads \in BOOLEAN, health \in HealthResponses :
       LET r == selectKernelClient(input.setting, input.url, health,
                                   pyodideLoads)
       IN output' = [output EXCEPT
                       !.reconnecting = FALSE,
                       !.kernelClient = r.client,
                       !.inits = @ \cup r.inits,
                       !.health = IF "backend" \in r.inits THEN health
                                  ELSE @,
                       !.kernelStatus = IF r.client # "null" THEN "idle"
                                        ELSE "disconnected"]
  /\ UNCHANGED <<updates, nUuid, cdoc>>
  /\ KernelUnchanged

\* deleteCell(cellId) on a cell of the view, and the sync of the view that
\* its update schedules.
DeleteCell ==
  /\ output.op = "kernel"
  /\ Deletes < MaxDeletes
  /\ \E i \in DOMAIN SessionCells :
       LET index == deleteCell(SessionCells, SessionCells[i].id)
       IN /\ index # 0
          /\ SessionApply(<<Update(Session,
                                   <<DelCell(SessionCells[index].cell)>>)>>,
                          nUuid, output)
  /\ KernelUnchanged

NextKernelOps ==
  \/ LocalLoad
  \/ StartLoading
  \/ KernelSelected
  \/ \E advance \in BOOLEAN : ExecuteCell(advance)
  \/ \E i \in 1..MaxInflight : ExecuteSettled(i)
  \/ RestartKernel
  \/ RestartSettled
  \/ InterruptKernel
  \/ ReconnectToKernel
  \/ ReconnectSettled
  \/ DeleteCell

\* The session opens a notebook that storage does not have, with no kernel
\* mode saved in the settings.
InitKernelOps ==
  /\ InitKernel
  /\ input.saved = NoSaved
  /\ input.setting = "unset"

SpecKernelOps == InitKernelOps /\ [][NextKernelOps]_vars


\* The edges of the kernel connection's state machine.
KernelEdges ==
  { <<"disconnected", "loading">>, <<"loading", "idle">>,
    <<"loading", "disconnected">>, <<"idle", "busy">>, <<"busy", "idle">>,
    <<"idle", "starting">>, <<"starting", "idle">> }

\* C31: kernelStatus changes only along the edges of the state machine, or
\* to loading on a reconnect request, and it leaves disconnected or loading
\* for idle only when the selection of a client (at init or reconnect) has
\* succeeded: never by an interrupt, a restart or a late execution result.
C31_KernelStatusEdges ==
  [][output'.kernelStatus # output.kernelStatus =>
       /\ \/ <<output.kernelStatus, output'.kernelStatus>> \in KernelEdges
          \/ ReconnectToKernel /\ output'.kernelStatus = "loading"
       /\ ( /\ output.kernelStatus \in {"disconnected", "loading"}
            /\ output'.kernelStatus = "idle" )
            => (KernelSelected \/ ReconnectSettled)]_vars


\* C38: whenever a cell has runtime status running, kernelStatus is busy,
\* also when two executions overlap and one of them is answered first.
C38_RunningMeansBusy ==
  output.op = "kernel" =>
    ( (\E id \in DOMAIN output.runtime :
         output.runtime[id].status = "running")
      => output.kernelStatus = "busy" )


\* C35: the keys of the runtime map are the ids of the cells of the
\* document: the sync of the view adds an entry for each new cell and
\* erases the entries of the cells that are gone, and no later event (an
\* execution answered after its cell was deleted included) brings an
\* erased entry back.
C35_RuntimeKeys ==
  output.op = "kernel" =>
    DOMAIN output.runtime = CellIdsOf(SessionCells)


(***************************************************************************)
(* SpecAwarenessEvents: the awareness traffic of SpecAwareness, and        *)
(* sessions that announce that a state is gone: their own when they leave, *)
(* or one they have not heard of for too long (the coordinator's           *)
(* included, whose state is sent to every new socket and never renewed).   *)
(***************************************************************************)
ClientAwarenessRemoval(c) ==
  /\ cconn[c] = "open"
  /\ c2s[c] = <<>>
  /\ \E id \in AwIds :
       /\ awareness[id].live
       /\ awareness[id].clock < MaxClock
       /\ c2s' = [c2s EXCEPT ![c] =
                    Append(@, AwarenessFrame({[id |-> id,
                                               clock |-> awareness[id].clock + 1,
                                               live |-> FALSE]}))]
  /\ UNCHANGED <<updates, nUuid, pc, doc, initializing, persistPending,
                 alarmSet, alarmMoved, writing, stored, written, activations,
                 awareness, socks, attach, cdoc, cconn, s2c>>
  /\ UNCHANGED aux

NextAwarenessEvents ==
  \/ Hydrate
  \/ SanitizeOnLoad
  \/ \E c \in Clients : HandleWebSocketInOrder(c)
  \/ \E c \in Clients : OnSync(c)
  \/ \E c \in Clients : OnAwareness(c)
  \/ \E c \in Clients : WebSocketClose(c)
  \/ \E c \in Clients : ClientOpen(c)
  \/ \E c \in Clients : ClientReceive(c)
  \/ \E c \in Clients : ClientAwareness(c)
  \/ \E c \in Clients : ClientAwarenessRemoval(c)
  \/ \E c \in Clients : ClientClose(c)

SpecAwarenessEvents == Init /\ [][NextAwarenessEvents]_vars

\* C32: when an awareness update received from socket S changes the
\* registry, the frame of the change is sent to every other accepted socket
\* and not to S; afterwards the attachment of S holds every added or
\* updated id and none of the removed ones, and the attachments of the
\* other sockets are as they were.
C32_AwarenessRebroadcast ==
  [][\A c \in Clients :
       LET r == applyAwarenessUpdate(awareness, Head(c2s[c]).aw)
           changed == (r.added \cup r.updated) \cup r.removed
           frame == AwarenessFrame(encodeAwarenessUpdate(awareness', changed))
       IN (OnAwareness(c) /\ changed # {}) =>
            /\ \A o \in Clients \ {c} :
                 s2c'[o] = IF o \in socks /\ cconn[o] # "closed"
                           THEN Append(s2c[o], frame) ELSE s2c[o]
            /\ s2c'[c] = s2c[c]
            /\ (r.added \cup r.updated) \subseteq attach'[c]
            /\ attach'[c] \cap r.removed = {}
            /\ \A o \in Clients \ {c} : attach'[o] = attach[o]]_vars

\* A session has announced that another session's state is gone: the frame
\* of the removal waits on that session's open socket, and the id has left
\* the attachment of the socket that announced it.
C32_Witness ==
  \E c \in Clients, o \in Clients :
    /\ c # o
    /\ {c, o} \subseteq socks
    /\ cconn[o] = "open"
    /\ s2c[o] # <<>>
    /\ s2c[o][Len(s2c[o])].t = "awareness"
    /\ \E e \in s2c[o][Len(s2c[o])].aw : e.id = o /\ ~e.live
    /\ o \notin attach[c]
    /\ c \in attach[c]


(***************************************************************************)
(* SpecColdContent: a cold start on a snapshot whose cells hold contents   *)
(* of every kind: a collaborative text, a string, a number, a boolean,     *)
(* nothing.                                                                *)
(***************************************************************************)
Bool(s) == [t |-> "bool", v |-> s]

ContentKinds == {YText("x"), Str("x"), Num("5"), Bool("true"), Nil}

InitColdContent ==
  /\ \E m \in 1..MaxColdCells :
       \E cs \in [1..m -> [id : {Str("7"), Str("b")},
                           type : {Str("code"), Str("raw")},
                           content : ContentKinds]] :
         updates = <<Update("old", StoredCells(cs))>>
  /\ stored = Bytes(<<1>>)
  /\ InitCoordinator
  /\ InitRest
  /\ InitAux

SpecColdContent == InitColdContent /\ [][NextCold]_vars

\* String(value) for a string, a number or a boolean; "" for no value.
StringCoercion(value) ==
  IF value.t \in {"str", "num", "bool"} THEN value.v ELSE ""

\* C33: once the coordinator has sanitized the snapshot it started from,
\* every cell whose stored content was not a collaborative text holds a
\* collaborative text whose value is the string coercion of the stored
\* content (a string, a number, a boolean, or nothing).
C33_ContentCoerced ==
  Ready =>
    LET old == DocCells(updates, {1})
        new == DocCells(updates, doc)
    IN \A i \in DOMAIN old :
         old[i].content.t # "text" =>
           new[i].content = YText(StringCoercion(old[i].content))

\* typeof rawId === "string" with a non-empty value that trim() leaves alone.
CleanId(raw) == raw.t = "str" /\ raw.v # "" /\ Trim(raw.v) = raw.v

\* The ids sanitize drew from randomId() for the cells of `new`.
MintedAt(old, new) ==
  {i \in DOMAIN new : new[i].id # Str(Trim(IdString(old[i].id)))}

\* C34: once the coordinator has sanitized the snapshot it started from,
\* the cells are the stored cells in the stored order; a cell whose stored
\* id was a non-empty trimmed string that no earlier cell used has kept it;
\* a cell whose stored id an earlier cell used has a new id; and every id
\* that was minted differs from every stored id and from the id of every
\* other cell.
C34_SanitizeFrame ==
  Ready =>
    LET old == DocCells(updates, {1})
        new == DocCells(updates, doc)
    IN /\ Len(new) = Len(old)
       /\ \A i \in DOMAIN old : new[i].cell = old[i].cell
       /\ \A i \in DOMAIN old :
            (CleanId(old[i].id) /\ \A j \in 1..(i - 1) : old[j].id # old[i].id)
              => new[i].id = old[i].id
       /\ \A i \in DOMAIN old :
            (\E j \in 1..(i - 1) : old[j].id = old[i].id)
              => new[i].id # old[i].id
       /\ \A i \in MintedAt(old, new) :
            /\ \A j \in DOMAIN old : new[i].id # Str(IdString(old[j].id))
            /\ \A j \in DOMAIN new : j # i => new[j].id # new[i].id

\* C40: whenever the ready coordinator holds persistPending = true, the
\* alarm that schedulePersist set is still outstanding: it is set and its
\* handler has not started.  The flag is never true with no alarm to clear
\* it.
C40_PendingHasAlarm == (Ready /\ persistPending) => alarmSet

\* An update is waiting for its alarm: the flag is set, the alarm has not
\* run, no put is in flight and the stored snapshot lacks the update.
C40_Witness ==
  /\ Ready
  /\ persistPending
  /\ alarmSet
  /\ ~writing.has
  /\ \E n \in doc : n \notin StoredDoc

(***************************************************************************)
(* SpecDispose: the collaboration effect of useNotebook over several runs, *)
(* with the continuations of the runs that were cleaned up.  output holds  *)
(*   gen           the number of the current bootstrap;                    *)
(*   collabStatus, isDirty   the React state;                              *)
(*   boots[g]      the closure of bootstrap g:                             *)
(*     collab        a collab configuration was found;                     *)
(*     disposed, readyToMarkDirty, synced, seededFromStorage  its locals;  *)
(*     pc            the async block: "fetch", "load", "local" (the load   *)
(*                   of the branch without collab), "done", "aborted"      *)
(*                   (ended by `if (disposed) return`), "none";            *)
(*     seed          the async block started by onSync is awaiting;        *)
(*     timer         syncTimeoutId: "armed", "fired", "cleared", "none";   *)
(*     onUpdate, onSyncOn   the listeners on the doc and the provider      *)
(*                   are attached;                                         *)
(*     doc, writes   what the Y.Doc holds ("empty", "default", "remote",   *)
(*                   "saved", "edited") and how many transactions it took; *)
(*     ws            the provider: "idle", "connecting", "open", "synced", *)
(*                   "destroyed", "none";                                  *)
(*     connects      the number of calls of provider.connect().            *)
(***************************************************************************)
Gens == 1..MaxBootstraps

NoBoot ==
  [collab |-> FALSE, disposed |-> FALSE, readyToMarkDirty |-> FALSE,
   synced |-> FALSE, seededFromStorage |-> FALSE, pc |-> "none",
   seed |-> FALSE, timer |-> "none", onUpdate |-> FALSE, onSyncOn |-> FALSE,
   doc |-> "empty", writes |-> 0, ws |-> "none", connects |-> 0]

\* The effect body up to its return: the listeners, the timer and the async
\* block (or the load of the branch without collab) are started.
NewBoot(collab) ==
  [NoBoot EXCEPT !.collab = collab,
                 !.pc = IF collab THEN "fetch" ELSE "local",
                 !.timer = IF collab THEN "armed" ELSE "none",
                 !.onUpdate = TRUE,
                 !.onSyncOn = collab,
                 !.ws = IF collab THEN "idle" ELSE "none"]

\* The cleanup leaves the watchdog armed.
CleanupKeepsTimer(b) ==
  [b EXCEPT !.disposed = TRUE,
            !.onUpdate = FALSE,
            !.onSyncOn = FALSE,
            !.ws = IF b.collab THEN "destroyed" ELSE @]

\* The function the effect returns: disposed = true, clearTimeout,
\* doc.off, the provider's listeners off, provider.destroy().
Cleanup(b) ==
  [b EXCEPT !.disposed = TRUE,
            !.timer = IF @ = "armed" THEN "cleared" ELSE @,
            !.onUpdate = FALSE,
            !.onSyncOn = FALSE,
            !.ws = IF b.collab THEN "destroyed" ELSE @]

InitDispose ==
  /\ InitNotebook
  /\ input = [op |-> "collab", serverUrl |-> "wss://h/ws"]
  /\ \E collab \in BOOLEAN :
       output = [op |-> "dispose", gen |-> 1,
                 collabStatus |-> IF collab THEN "connecting" ELSE "disabled",
                 isDirty |-> FALSE,
                 boots |-> [g \in Gens |->
                              IF g = 1 THEN NewBoot(collab) ELSE NoBoot]]

\* The React state together with the closure of bootstrap g.
Closure(g) ==
  [collabStatus |-> output.collabStatus, isDirty |-> output.isDirty,
   b |-> output.boots[g]]

\* The step of bootstrap g that leaves the closure s.
Resumed(g, s) ==
  /\ output' = [output EXCEPT !.collabStatus = s.collabStatus,
                              !.isDirty = s.isDirty,
                              !.boots[g] = s.b]
  /\ BootstrapFrame

\* The "update" listener of the doc: onDocUpdate, when it is attached.
DocUpdated(s) ==
  IF s.b.onUpdate /\ s.b.readyToMarkDirty
  THEN [s EXCEPT !.isDirty = TRUE]
  ELSE s

\* A transaction on the doc of the closure.
Transact(s, content) ==
  DocUpdated([s EXCEPT !.b.doc = content, !.b.writes = @ + 1])

LooksDefault(s) == s.b.doc = "default"

EnsureInitialized(s) ==
  IF s.b.doc = "empty" THEN Transact(s, "default") ELSE s

\* What the snapshot fetch resolves to: null, an empty body, the bytes of
\* the default notebook or of another one.
Buffers == {"null", "zero", "default", "remote"}

\* Faulty tryApplyRemoteCollabSnapshot: shouldAbort() is not asked.
TryApplyUnguarded(s, buf) ==
  IF buf = "null" THEN [s |-> s, r |-> FALSE]
  ELSE IF buf = "zero" THEN [s |-> s, r |-> TRUE]
  ELSE [s |-> Transact(s, buf), r |-> TRUE]

\* tryApplyRemoteCollabSnapshot after its await: [s, r], r the result.
TryApplyRemote(s, buf) ==
  IF buf = "null" \/ s.b.disposed THEN [s |-> s, r |-> FALSE]
  ELSE IF buf = "zero" THEN [s |-> s, r |-> TRUE]
  ELSE [s |-> Transact(s, buf), r |-> TRUE]

\* What getNotebookAsync resolves to.
SavedKinds == {"null", "saved"}

\* loadNotebookSnapshotIntoDoc after its await: [s, r], r the result.
LoadInto(s, saved) ==
  IF s.b.disposed THEN [s |-> s, r |-> FALSE]
  ELSE IF saved = "null" THEN [s |-> EnsureInitialized(s), r |-> FALSE]
  ELSE [s |-> EnsureInitialized(Transact(s, "saved")), r |-> TRUE]

\* if (disposed) return
Aborted(s) == [s EXCEPT !.b.pc = "aborted"]

\* ensureNotebookInitialized(doc); readyToMarkDirty = true;
\* provider.connect()
Finish(s) ==
  LET e == EnsureInitialized(s)
  IN [e EXCEPT !.b.readyToMarkDirty = TRUE,
               !.b.pc = "done",
               !.b.connects = @ + 1,
               !.b.ws = "connecting"]

\* The async block resumes from `await tryApplyRemoteCollabSnapshot`.
FetchSettled(g) ==
  /\ output.boots[g].pc = "fetch"
  /\ \E buf \in Buffers :
       LET t == TryApplyRemote(Closure(g), buf)
       IN Resumed(g,
            IF t.s.b.disposed THEN Aborted(t.s)
            ELSE IF ~t.r
            THEN [t.s EXCEPT !.collabStatus = "fallback", !.b.pc = "load"]
            ELSE IF LooksDefault(t.s) THEN [t.s EXCEPT !.b.pc = "load"]
            ELSE Finish(t.s))

\* The async block resumes from `await loadNotebookSnapshotIntoDoc`.
LoadSettled(g) ==
  /\ output.boots[g].pc = "load"
  /\ \E saved \in SavedKinds :
       LET l == LoadInto(Closure(g), saved)
           s == [l.s EXCEPT !.b.seededFromStorage = l.r]
       IN Resumed(g, IF s.b.disposed THEN Aborted(s) ELSE Finish(s))

\* The branch without collab: the .then of loadNotebookSnapshotIntoDoc.
LocalLoadSettled(g) ==
  /\ output.boots[g].pc = "local"
  /\ \E saved \in SavedKinds :
       LET l == LoadInto(Closure(g), saved)
       IN Resumed(g,
            IF l.s.b.disposed THEN Aborted(l.s)
            ELSE [l.s EXCEPT !.b.readyToMarkDirty = TRUE, !.b.pc = "done"])

\* The timer of syncTimeoutId fires.
WatchdogFires(g) ==
  /\ output.boots[g].timer = "armed"
  /\ LET s == [Closure(g) EXCEPT !.b.timer = "fired"]
     IN Resumed(g, IF s.b.synced THEN s
                   ELSE [s EXCEPT !.collabStatus = "fallback"])

\* The provider's socket opens.
SocketOpens(g) ==
  /\ output.boots[g].ws = "connecting"
  /\ Resumed(g, [Closure(g) EXCEPT !.b.ws = "open"])

\* The provider emits "sync" with isSynced = true; onSync runs when it is
\* attached.
SyncEmitted(g) ==
  /\ output.boots[g].ws = "open"
  /\ LET s == [Closure(g) EXCEPT !.b.ws = "synced"]
     IN Resumed(g,
          IF ~s.b.onSyncOn THEN s
          ELSE [s EXCEPT
                  !.b.synced = TRUE,
                  !.collabStatus = "connected",
                  !.b.seed = ~s.b.seededFromStorage /\ LooksDefault(s),
                  !.b.timer = IF @ = "armed" THEN "cleared" ELSE @])

\* The async block of onSync resumes from its await.
SeedSettled(g) ==
  /\ output.boots[g].seed
  /\ \E saved \in SavedKinds :
       LET l == LoadInto([Closure(g) EXCEPT !.b.seed = FALSE], saved)
       IN Resumed(g, IF l.s.b.disposed THEN l.s
                     ELSE [l.s EXCEPT !.b.seededFromStorage = l.r])

\* The user edits the notebook of the current bootstrap.
UserEdits ==
  /\ output.boots[output.gen].doc \notin {"empty", "edited"}
  /\ Resumed(output.gen, Transact(Closure(output.gen), "edited"))

\* notebookId or the collab configuration changes: the cleanup of the
\* current bootstrap runs, then the effect body.
Disposes ==
  /\ output.gen < MaxBootstraps
  /\ \E collab \in BOOLEAN :
       output' = [output EXCEPT
                    !.gen = @ + 1,
                    !.collabStatus = IF collab THEN "connecting"
                                     ELSE "disabled",
                    !.isDirty = FALSE,
                    !.boots[output.gen] = Cleanup(@),
                    !.boots[output.gen + 1] = NewBoot(collab)]
  /\ BootstrapFrame

NextDispose ==
  \/ \E g \in Gens : FetchSettled(g)
  \/ \E g \in Gens : LoadSettled(g)
  \/ \E g \in Gens : LocalLoadSettled(g)
  \/ \E g \in Gens : WatchdogFires(g)
  \/ \E g \in Gens : SocketOpens(g)
  \/ \E g \in Gens : SyncEmitted(g)
  \/ \E g \in Gens : SeedSettled(g)
  \/ UserEdits
  \/ Disposes

SpecDispose == InitDispose /\ [][NextDispose]_vars

\* C39: a step taken by a bootstrap that has been disposed (a pending
\* continuation: the snapshot fetch or a storage load settles, the watchdog
\* fires, the provider emits sync) leaves collabStatus and isDirty as they
\* were, writes to no document, old or new, and does not connect the old
\* provider.
C39_DisposedIsInert ==
  [][\A g \in Gens :
       (/\ output.op = "dispose"
        /\ output.boots[g].disposed
        /\ output'.boots[g] # output.boots[g])
         => /\ output'.collabStatus = output.collabStatus
            /\ output'.isDirty = output.isDirty
            /\ \A h \in Gens :
                 /\ output'.boots[h].doc = output.boots[h].doc
                 /\ output'.boots[h].writes = output.boots[h].writes
            /\ output'.boots[g].connects = output.boots[g].connects
            /\ output'.boots[g].ws = output.boots[g].ws
            /\ output'.boots[g].readyToMarkDirty
                 = output.boots[g].readyToMarkDirty]_vars

\* The first bootstrap was disposed while it awaited, its continuation has
\* since run and returned, and the second bootstrap has connected and is
\* dirty.
C39_Witness ==
  /\ output.op = "dispose"
  /\ output.gen = 2
  /\ output.boots[1].pc = "aborted"
  /\ output.boots[1].timer = "cleared"
  /\ output.boots[2].pc = "done"
  /\ output.collabStatus = "connected"
  /\ output.isDirty

(***************************************************************************)
(* SpecMoves: two sessions that sync with the coordinator and add, delete  *)
(* and move cells.  DocCells lists the cells in the order of insertion, so *)
(* the move that is modelled is the one whose target is the end of the     *)
(* array: moveCell(cellId, "down") on the cell before the last.            *)
(***************************************************************************)
MaxCellOps == 4

\* yCells.insert(targetIndex, [yCell]) with a Y.Map that is already part of
\* the document (the library is not among the sources): the inserted map
\* holds the entries of yCell, or holds none because they were deleted with
\* the item that yCells.delete removed.
MoveOutcomes == {"entries kept", "entries deleted"}

\* The index (from 1) that moveCell(cellId, "down") takes out, or 0 when it
\* returns early.
moveCell(cells, cellId) ==
  IF \E i \in 1..Len(cells) : cells[i].id = cellId
  THEN LET index == CHOOSE i \in 1..Len(cells) :
                      /\ cells[i].id = cellId
                      /\ \A j \in 1..(i - 1) : cells[j].id # cellId
       IN IF index + 1 > Len(cells) THEN 0 ELSE index
  ELSE 0

\* The two transactions of moveCell on the cell yCell: the delete, then the
\* insert of the same Y.Map, as updates n and n + 1 of session c.
MoveUpdates(c, yCell, n, outcome) ==
  <<Update(c, <<DelCell(yCell.cell)>>),
    Update(c, <<IF outcome = "entries kept"
                THEN InsCell(n + 1, 1, yCell.id, yCell.type, yCell.content)
                ELSE InsCell(n + 1, 1, Nil, Nil, Nil)>>)>>

\* moveCell(cellId, "down") of session c on the cell before the last.
ClientMove(c) ==
  /\ cconn[c] # "closed"
  /\ Edits + 2 <= MaxCellOps
  /\ LET cells == DocCells(updates, cdoc[c])
         n == Len(updates) + 1
     IN \E cellId \in {cells[i].id : i \in 1..Len(cells)},
           outcome \in MoveOutcomes :
          LET index == moveCell(cells, cellId)
          IN /\ index # 0
             /\ index + 1 = Len(cells)
             /\ updates' = updates \o MoveUpdates(c, cells[index], n, outcome)
             /\ cdoc' = [cdoc EXCEPT ![c] = @ \cup {n, n + 1}]
             /\ c2s' = IF cconn[c] = "open"
                       THEN [c2s EXCEPT ![c] =
                               @ \o <<SyncUpdate({n}), SyncUpdate({n + 1})>>]
                       ELSE c2s
  /\ UNCHANGED <<nUuid, pc, doc, initializing, persistPending, alarmSet,
                 alarmMoved, writing, stored, written, activations,
                 awareness, socks, attach, cconn, s2c>>
  /\ UNCHANGED aux

\* addCell(null) of session c: a code cell at the end of the cells.
ClientAdd(c) ==
  /\ cconn[c] # "closed"
  /\ Edits < MaxEdits
  /\ LET n == Len(updates) + 1
     IN /\ updates' = Append(updates,
             Update(c, <<InsCell(n, 1, Str(generateId(n)), Str("code"),
                                 YText(""))>>))
        /\ cdoc' = [cdoc EXCEPT ![c] = @ \cup {n}]
        /\ c2s' = IF cconn[c] = "open"
                  THEN [c2s EXCEPT ![c] = Append(@, SyncUpdate({n}))]
                  ELSE c2s
  /\ UNCHANGED <<nUuid, pc, doc, initializing, persistPending, alarmSet,
                 alarmMoved, writing, stored, written, activations,
                 awareness, socks, attach, cconn, s2c>>
  /\ UNCHANGED aux

NextMoves ==
  \/ Hydrate
  \/ SanitizeOnLoad
  \/ \E c \in Clients : HandleWebSocketInOrder(c)
  \/ \E c \in Clients : OnSync(c)
  \/ \E c \in Clients : OnAwareness(c)
  \/ \E c \in Clients : ClientOpen(c)
  \/ \E c \in Clients : ClientReceive(c)
  \/ \E c \in Clients : ClientAdd(c)
  \/ \E c \in Clients : ClientDelete(c)
  \/ \E c \in Clients : ClientMove(c)

SpecMoves == Init /\ [][NextMoves]_vars

\* The merge has converged: both sessions and the coordinator hold the same
\* updates and no frame is in flight.
Converged ==
  /\ Ready
  /\ \A c \in Clients :
       /\ cconn[c] = "open"
       /\ cdoc[c] = doc
       /\ c2s[c] = <<>>
       /\ s2c[c] = <<>>

\* C36: once the sessions' addCell, deleteCell and moveCell operations have
\* been merged everywhere, the cells of the document have pairwise distinct
\* ids and every cell still holds an id (a non-empty string): no cell has
\* lost its id and none appears twice.
C36_IdsSurviveMoves ==
  Converged =>
    LET cells == DocCells(updates, doc)
    IN /\ \A i, j \in 1..Len(cells) : i # j => cells[i].id # cells[j].id
       /\ \A i \in 1..Len(cells) :
            cells[i].id.t = "str" /\ cells[i].id.v # ""

(***************************************************************************)
(* SpecSaving: the sessions of a notebook over time, with their edits, the *)
(* delivery of updates between them, their auto-save ticks and their       *)
(* closing.  output holds, per session s,                                  *)
(*   open[s]     the tab is open (the hook is mounted and bootstrapped);   *)
(*   docs[s]     the changes its Y.Doc holds;                              *)
(*   isDirty[s]  the React state;                                          *)
(*   views[s]    its awareness registry [states, lastUpdated];             *)
(* and external, the changes of the last notebook that saveNotebookAsync   *)
(* wrote to the external store, and backups[s], those of the local backup. *)
(***************************************************************************)
MaxChanges == 2

Changes == 1..MaxChanges

Fresh == [s \in Sessions |-> Num(Now)]

InitSaving ==
  /\ InitNotebook
  /\ input = [op |-> "saving"]
  /\ output = [op |-> "saving",
               open |-> [s \in Sessions |-> TRUE],
               docs |-> [s \in Sessions |-> {}],
               isDirty |-> [s \in Sessions |-> FALSE],
               views |-> [s \in Sessions |->
                            [states |-> Sessions, lastUpdated |-> Fresh]],
               external |-> {},
               backups |-> [s \in Sessions |-> {}]]

Made == UNION {output.docs[s] : s \in Sessions}

\* A local edit of session s (updateCellContent, addCell, ...): the doc
\* takes the change, and onDocUpdate and the callback set isDirty.
SessionEdits(s) ==
  /\ output.open[s]
  /\ \E n \in Changes :
       /\ n \notin Made
       /\ \A m \in Changes : m < n => m \in Made
       /\ output' = [output EXCEPT !.docs[s] = @ \cup {n},
                                   !.isDirty[s] = TRUE]
  /\ BootstrapFrame

\* The updates of session s reach session t through the coordinator (the
\* provider sent them when they were made, so they arrive also when s has
\* closed since): onDocUpdate of t sets isDirty (readyToMarkDirty is true).
UpdateDelivered(s, t) ==
  /\ s # t
  /\ output.open[t]
  /\ ~(output.docs[s] \subseteq output.docs[t])
  /\ output' = [output EXCEPT !.docs[t] = @ \cup output.docs[s],
                              !.isDirty[t] = TRUE]
  /\ BootstrapFrame

\* The auto-save interval callback of session s on a dirty session:
\* saveNotebook, then saveNotebookAsync when s is the leader of its view,
\* then isDirty: false.
SavingTick(s) ==
  /\ output.open[s]
  /\ output.isDirty[s]
  /\ LET ids == getActiveAwarenessClientIds(output.views[s], s)
         isLeader == LeaderId(ids, s) = s
     IN output' = [output EXCEPT
                     !.backups[s] = output.docs[s],
                     !.external = IF isLeader THEN output.docs[s] ELSE @,
                     !.isDirty[s] = FALSE]
  /\ BootstrapFrame

\* The tab of session s is closed (or crashes); another session stays open.
SessionCloses(s) ==
  /\ output.open[s]
  /\ \E t \in Sessions \ {s} : output.open[t]
  /\ output' = [output EXCEPT !.open[s] = FALSE]
  /\ BootstrapFrame

\* Session t learns that s has gone: the coordinator broadcasts the removal
\* of its awareness state, or its heartbeat becomes older than 60 s.
PeerGone(t, s) ==
  /\ s # t
  /\ output.open[t]
  /\ ~output.open[s]
  /\ s \in getActiveAwarenessClientIds(output.views[t], t)
  /\ \E removed \in BOOLEAN :
       output' =
         IF removed
         THEN [output EXCEPT !.views[t].states = @ \ {s}]
         ELSE [output EXCEPT !.views[t].lastUpdated[s] =
                               Num(Now - COLLAB_STALE_MS - 1)]
  /\ BootstrapFrame

NextSaving ==
  \/ \E s \in Sessions : SessionEdits(s)
  \/ \E s, t \in Sessions : UpdateDelivered(s, t)
  \/ \E s \in Sessions : SavingTick(s)
  \/ \E s \in Sessions : SessionCloses(s)
  \/ \E s, t \in Sessions : PeerGone(t, s)

SpecSaving == InitSaving /\ [][NextSaving]_vars

\* The interval timer of an open session fires every 30 s, updates between
\* connected sessions are delivered, and the departure of a session becomes
\* known to the others.
FairSaving ==
  /\ SpecSaving
  /\ \A s \in Sessions : WF_vars(SavingTick(s))
  /\ \A s, t \in Sessions : WF_vars(UpdateDelivered(s, t))
  /\ \A s, t \in Sessions : WF_vars(PeerGone(t, s))

\* C37: every change made in a session (which made that session dirty) is
\* eventually part of a notebook written to the external store, some
\* session staying open throughout.
C37_EventuallyExternal ==
  \A n \in Changes :
    (output.op = "saving" /\ n \in Made) ~> (n \in output.external)

====
